---- MODULE Spec2Model ----
(***************************************************************************)
(* A model of the ray tracer's intersection ledger, CSG filtering, shading *)
(* state construction and the recursive shading of World::color_at.        *)
(*                                                                         *)
(* Conventions.  A Shape is represented by its id (Shape equality and hash *)
(* are by id).  The parameter t of an intersection is an integer.  An      *)
(* Option<T> is a sequence of length 0 (None) or 1 (Some).  A real (a      *)
(* refractive index, a coefficient, a color channel) is an integer number  *)
(* of hundredths (100 is 1.0).  The geometry of a ray (which records each  *)
(* element inserts, the distance to a light, the dot products) is drawn by *)
(* the actions from small sets.                                            *)
(***************************************************************************)
EXTENDS Integers, Sequences, FiniteSets, TLC

\* ---------------------------------------------------------------- bounds

\* longest ledger the ledger operations are driven to by insert
MaxLen == 3
\* largest intersection parameter t that insert draws (the smallest is -1)
MaxT == 1
\* largest fuel World::color_at is first called with (the smallest is -1)
MaxFuel == 1
\* largest number of lights of the world
MaxLights == 1
\* largest number of Shapes constructed or cloned
MaxShapes == 3
\* largest number of children handed to Element::composite
MaxChildren == 2
\* deepest nesting of groups
MaxDepth == 2
MaxInserts == 3
HSize == 2
VSize == 2

\* the shapes of the scene, by id
ShapeIds == {0, 1, 2}
TValues == -1 .. MaxT

VARIABLES
    intersections,  \* Intersections.intersections: the ledger
    group,          \* the Group handed to filter_by_group
    in_left,        \* filter_by_group: local in_left
    in_right,       \* filter_by_group: local in_right
    result,         \* filter_by_group: local result
    cursor,         \* filter_by_group: index of the next record of the for loop
    found,          \* what hit returned, until the ledger is used again
    op,             \* the ledger operation that ran last
    material,       \* the scene: shape id -> Material
    self,           \* prepare_state: the intersection it is called on
    shapes,         \* prepare_state: local shapes (Vec<&Shape>)
    set,            \* prepare_state: local set (HashSet<&Shape>)
    n1,             \* prepare_state: local n1
    n2,             \* prepare_state: local n2
    walk,           \* prepare_state: index of the next record of the for loop
    lights,         \* World.lights: the number of lights
    stack,          \* the activations of World::color_at, the innermost last
    pixel,          \* what the outermost color_at returned
    ID,             \* thread_local static ID: thread -> Cell<usize>
    built,          \* the Shapes constructed or cloned so far, in order
    scene,          \* the Elements built so far, the newest last
    panicked,       \* an assert! of Element::composite has failed
    composed,       \* kind and number of children of the last Element::composite
    cast,           \* the Ray of the last Group::intersect, as an Option
    visited,        \* the children that call visited: their shape, -1 for a group
    bbox,           \* a BoundingBox that receives insert calls
    out,            \* what the last BoundingBox::insert returned
    inserted,       \* the points inserted into bbox so far
    camera,         \* the Camera: hsize, vsize and the ray of every pixel
    tasks,          \* par_render: pixel index -> progress of its task
    ledgers,        \* par_render: the ledgers the tasks work on
    pixels,         \* par_render: pixel index -> the collected color
    lighting_args,  \* the arguments of a call of Shape::lighting
    lighting_result, \* what that call returned
    query,          \* the arguments of the last call of a function of a geometry or box
    answer          \* what that call returned

ledgerVars == <<group, in_left, in_right, result, cursor, found, op>>
prepareVars == <<self, shapes, set, n1, n2, walk>>

worldVars == <<lights, stack, pixel>>

idVars == <<ID, built>>
compositeVars == <<scene, panicked, composed>>
traverseVars == <<cast, visited>>
boxVars == <<bbox, out, inserted>>
renderVars == <<camera, tasks, ledgers, pixels>>
lightingVars == <<lighting_args, lighting_result>>
queryVars == <<query, answer>>
buildVars == <<idVars, compositeVars, traverseVars, boxVars, renderVars, lightingVars, queryVars>>

vars == <<intersections, material, ledgerVars, prepareVars, worldVars, buildVars>>

\* the threads of the process
Threads == {0, 1}

\* nothing is being built, boxed, rendered or lit
BuildIdle ==
    /\ ID = [thread \in Threads |-> 0]
    /\ built = <<>>
    /\ scene = <<>>
    /\ panicked = FALSE
    /\ composed = <<>>
    /\ cast = <<>>
    /\ visited = <<>>
    /\ bbox = <<>>
    /\ out = <<>>
    /\ inserted = <<>>
    /\ camera = <<>>
    /\ tasks = <<>>
    /\ ledgers = <<>>
    /\ pixels = <<>>
    /\ lighting_args = <<>>
    /\ lighting_result = <<>>
    /\ query = <<>>
    /\ answer = <<>>

\* ------------------------------------------------------- Intersection

\* struct Intersection {t, shape}
Intersection(t, shape) == [t |-> t, shape |-> shape]

\* two Intersections compared by t alone
Intersection_eq_ByT(a, b) == a.t = b.t

\* impl PartialEq for Intersection: by (t, shape identity)
Intersection_eq(a, b) == a.t = b.t /\ a.shape = b.shape

\* ------------------------------------------------------------ Element

\* Element::Primitive(shape)
Primitive(shape) ==
    [type |-> "Primitive", shape |-> shape, kind |-> "None", children |-> <<>>]

\* Element::Composite(Group {kind, children})
Composite(kind, children) ==
    [type |-> "Composite", shape |-> -1, kind |-> kind, children |-> children]

Element_includes_Shallow(element, shape) ==
    element.type = "Primitive" /\ element.shape = shape

RECURSIVE Element_includes(_, _)
\* Element::includes, with Group::includes for a Composite
Element_includes(element, shape) ==
    IF element.type = "Primitive"
    THEN element.shape = shape
    ELSE \E i \in 1 .. Len(element.children) :
            Element_includes(element.children[i], shape)

\* Group::includes
Group_includes(g, shape) ==
    \E i \in 1 .. Len(g.children) : Element_includes(g.children[i], shape)

GroupKinds == {"Union", "Intersection", "Difference", "Aggregation"}

allows_intersection_SwappedDifference(kind, left_hit, in_l, in_r) ==
    CASE kind = "Union" -> (left_hit /\ ~in_r) \/ (~left_hit /\ ~in_l)
      [] kind = "Intersection" -> (left_hit /\ in_r) \/ (~left_hit /\ in_l)
      [] kind = "Difference" -> (left_hit /\ in_r) \/ (~left_hit /\ ~in_l)
      [] OTHER -> TRUE

\* GroupKind::allows_intersection
allows_intersection(kind, left_hit, in_l, in_r) ==
    CASE kind = "Union" -> (left_hit /\ ~in_r) \/ (~left_hit /\ ~in_l)
      [] kind = "Intersection" -> (left_hit /\ in_r) \/ (~left_hit /\ in_l)
      [] kind = "Difference" -> (left_hit /\ ~in_r) \/ (~left_hit /\ in_l)
      [] kind = "Aggregation" -> TRUE

\* ----------------------------------------------------------- Material

\* f64 1.0: reals are integer numbers of hundredths
One == 100

\* material::consts::transparency::VACUUM
VACUUM == 100

\* Material {reflective, transparency, refractive_index}; Material::default() is
\* Material(0, 0, VACUUM)
Material(reflective, transparency, refractive_index) ==
    [reflective |-> reflective, transparency |-> transparency,
     refractive_index |-> refractive_index]

\* every shape with Material::default()
DefaultMaterials == [s \in ShapeIds |-> Material(0, 0, VACUUM)]

\* the spheres a, b, c of tests::finding_n1_and_n2_at_intersections
GlassMaterials ==
    [s \in ShapeIds |-> Material(0, One, CASE s = 0 -> 150 [] s = 1 -> 200 [] OTHER -> 250)]

\* ------------------------------------------------------- Intersections

\* the sorted sequence s with r put behind every record whose t is not larger
InsertByT(s, r) ==
    SelectSeq(s, LAMBDA x : x.t <= r.t) \o <<r>> \o SelectSeq(s, LAMBDA x : x.t > r.t)

RECURSIVE SortByT(_)
\* Intersections::sort: the stable sort_by on t
SortByT(s) ==
    IF s = <<>> THEN <<>>
    ELSE InsertByT(SortByT(SubSeq(s, 1, Len(s) - 1)), s[Len(s)])

Intersections_hit_StrictlyPositive(s) ==
    IF \E i \in 1 .. Len(s) : s[i].t > 0
    THEN <<s[CHOOSE i \in 1 .. Len(s) :
                /\ s[i].t > 0
                /\ \A j \in 1 .. i - 1 : ~(s[j].t > 0)]>>
    ELSE <<>>

\* Intersections::hit: find the first record with t >= 0
Intersections_hit(s) ==
    IF \E i \in 1 .. Len(s) : s[i].t >= 0
    THEN <<s[CHOOSE i \in 1 .. Len(s) :
                /\ s[i].t >= 0
                /\ \A j \in 1 .. i - 1 : ~(s[j].t >= 0)]>>
    ELSE <<>>

\* the locals of filter_by_group before its loop
FilterInit == [in_left |-> FALSE, in_right |-> FALSE, result |-> <<>>]

\* a loop body without the test `!group.includes(intersection.shape)`
FilterStep_NoIncludesTest(g, acc, intersection) ==
    LET left_hit == Element_includes(g.children[1], intersection.shape)
        keep == allows_intersection(g.kind, left_hit, acc.in_left, acc.in_right)
    IN [in_left |-> IF left_hit THEN ~acc.in_left ELSE acc.in_left,
        in_right |-> IF left_hit THEN acc.in_right ELSE ~acc.in_right,
        result |-> IF keep THEN Append(acc.result, intersection) ELSE acc.result]

FilterStep_ToggleOnlyKept(g, acc, intersection) ==
    IF ~Group_includes(g, intersection.shape)
    THEN [acc EXCEPT !.result = Append(@, intersection)]
    ELSE LET left_hit == Element_includes(g.children[1], intersection.shape)
             keep == allows_intersection(g.kind, left_hit, acc.in_left, acc.in_right)
         IN [in_left |-> IF left_hit /\ keep THEN ~acc.in_left ELSE acc.in_left,
             in_right |-> IF ~left_hit /\ keep THEN ~acc.in_right ELSE acc.in_right,
             result |-> IF keep THEN Append(acc.result, intersection) ELSE acc.result]

\* filter_by_group: the body of the for loop, on one record
FilterStep(g, acc, intersection) ==
    IF ~Group_includes(g, intersection.shape)
    THEN [acc EXCEPT !.result = Append(@, intersection)]
    ELSE LET left_hit == Element_includes(g.children[1], intersection.shape)
             keep == allows_intersection(g.kind, left_hit, acc.in_left, acc.in_right)
         IN [in_left |-> IF left_hit THEN ~acc.in_left ELSE acc.in_left,
             in_right |-> IF left_hit THEN acc.in_right ELSE ~acc.in_right,
             result |-> IF keep THEN Append(acc.result, intersection) ELSE acc.result]

\* ------------------------------------------------------ prepare_state

\* shapes.last().map(|s| s.material.refractive_index).unwrap_or(1.0)
LastRefractiveIndex(mat, shs) ==
    IF shs = <<>> THEN VACUUM ELSE mat[shs[Len(shs)]].refractive_index

\* the locals of prepare_state before its loop
PrepareInit == [shapes |-> <<>>, set |-> {}, n1 |-> VACUUM, n2 |-> VACUUM]

\* a loop body that takes a shape met again off the list only when it is the last
PrepareStep_PopTop(mat, acc, hit, intersection) ==
    LET is_hit == Intersection_eq(hit, intersection)
        new_n1 == IF is_hit THEN LastRefractiveIndex(mat, acc.shapes) ELSE acc.n1
        new_shapes ==
            IF intersection.shape \in acc.set
            THEN IF acc.shapes[Len(acc.shapes)] = intersection.shape
                 THEN SubSeq(acc.shapes, 1, Len(acc.shapes) - 1)
                 ELSE acc.shapes
            ELSE Append(acc.shapes, intersection.shape)
        new_set ==
            IF intersection.shape \in acc.set
            THEN acc.set \ {intersection.shape}
            ELSE acc.set \cup {intersection.shape}
        new_n2 == IF is_hit THEN LastRefractiveIndex(mat, new_shapes) ELSE acc.n2
    IN [shapes |-> new_shapes, set |-> new_set, n1 |-> new_n1, n2 |-> new_n2]

\* prepare_state: the body of the for loop over the ledger, on one record
PrepareStep(mat, acc, hit, intersection) ==
    LET is_hit == Intersection_eq(hit, intersection)
        new_n1 == IF is_hit THEN LastRefractiveIndex(mat, acc.shapes) ELSE acc.n1
        new_shapes ==
            IF intersection.shape \in acc.set
            THEN SelectSeq(acc.shapes, LAMBDA sh : sh # intersection.shape)
            ELSE Append(acc.shapes, intersection.shape)
        new_set ==
            IF intersection.shape \in acc.set
            THEN acc.set \ {intersection.shape}
            ELSE acc.set \cup {intersection.shape}
        new_n2 == IF is_hit THEN LastRefractiveIndex(mat, new_shapes) ELSE acc.n2
    IN [shapes |-> new_shapes, set |-> new_set, n1 |-> new_n1, n2 |-> new_n2]

\* the ledger of tests::finding_n1_and_n2_at_intersections: a, b, c, b, c, a at
\* t = 2.0, 2.75, 3.25, 4.75, 5.25, 6.0
RefractionExampleLedger ==
    <<Intersection(200, 0), Intersection(275, 1), Intersection(325, 2),
      Intersection(475, 1), Intersection(525, 2), Intersection(600, 0)>>

\* the sorted ledgers of at most MaxLen records
SortedLedgers ==
    UNION {{s \in [1 .. n -> [t : TValues, shape : ShapeIds]] :
                \A i \in 1 .. n - 1 : s[i].t <= s[i + 1].t} : n \in 0 .. MaxLen}

\* no call of prepare_state is running
PrepareIdle ==
    /\ self = <<>>
    /\ shapes = <<>>
    /\ set = {}
    /\ n1 = VACUUM
    /\ n2 = VACUUM
    /\ walk = 0

\* no call of World::color_at is running
WorldIdle ==
    /\ lights = 0
    /\ stack = <<>>
    /\ pixel = <<>>

\* prepare_state is entered on one of the records of a sorted ledger, or on a
\* record the ledger does not hold
PrepareStateInit ==
    /\ intersections \in SortedLedgers \cup {RefractionExampleLedger}
    /\ self \in {<<intersections[i]>> : i \in 1 .. Len(intersections)}
                \cup {<<Intersection(MaxT + 1, 0)>>}
    /\ material = GlassMaterials
    /\ shapes = PrepareInit.shapes
    /\ set = PrepareInit.set
    /\ n1 = PrepareInit.n1
    /\ n2 = PrepareInit.n2
    /\ walk = 1
    /\ group = Composite("Aggregation", <<>>)
    /\ in_left = FALSE
    /\ in_right = FALSE
    /\ result = <<>>
    /\ cursor = 0
    /\ found = <<>>
    /\ op = "prepare_state"
    /\ WorldIdle
    /\ BuildIdle

\* prepare_state: one iteration of the for loop
PrepareNext ==
    /\ walk >= 1
    /\ walk <= Len(intersections)
    /\ LET acc == PrepareStep(material,
                    [shapes |-> shapes, set |-> set, n1 |-> n1, n2 |-> n2],
                    self[1], intersections[walk])
       IN /\ shapes' = acc.shapes
          /\ set' = acc.set
          /\ n1' = acc.n1
          /\ n2' = acc.n2
    /\ walk' = walk + 1
    /\ UNCHANGED <<intersections, material, self, ledgerVars, worldVars, buildVars>>

PrepareStateNext == PrepareNext

SpecPrepare == PrepareStateInit /\ [][PrepareStateNext]_vars

\* ------------------------------------------------ the ledger's operations

\* the ledger of tests::filter_by_group: sphere t=1, cube t=2, sphere t=3, cube t=4
CsgExampleLedger ==
    <<Intersection(1, 0), Intersection(2, 1), Intersection(3, 0), Intersection(4, 1)>>

\* the groups filter_by_group is run with: two primitives (shape 2 is outside the
\* group), and a nested CSG group as the left child
Groups ==
    {Composite(k, <<Primitive(0), Primitive(1)>>) : k \in GroupKinds}
    \cup
    {Composite(k, <<Composite(k2, <<Primitive(0), Primitive(1)>>), Primitive(2)>>) :
        k \in GroupKinds \ {"Aggregation"}, k2 \in {"Union"}}

LedgerInit ==
    /\ intersections \in {<<>>, CsgExampleLedger}
    /\ group \in Groups
    /\ in_left = FALSE
    /\ in_right = FALSE
    /\ result = <<>>
    /\ cursor = 0
    /\ found = <<>>
    /\ op = "new"
    /\ material = DefaultMaterials
    /\ PrepareIdle
    /\ WorldIdle
    /\ BuildIdle

\* Intersections::insert
Insert ==
    /\ cursor = 0
    /\ Len(intersections) < MaxLen
    /\ \E t \in TValues, s \in ShapeIds :
          intersections' = Append(intersections, Intersection(t, s))
    /\ found' = <<>>
    /\ op' = "insert"
    /\ UNCHANGED <<group, in_left, in_right, result, cursor, material, prepareVars, worldVars, buildVars>>

\* Intersections::clear
Clear ==
    /\ cursor = 0
    /\ intersections # <<>>
    /\ intersections' = <<>>
    /\ found' = <<>>
    /\ op' = "clear"
    /\ UNCHANGED <<group, in_left, in_right, result, cursor, material, prepareVars, worldVars, buildVars>>

\* Intersections::sort
Sort ==
    /\ cursor = 0
    /\ intersections' = SortByT(intersections)
    /\ found' = <<>>
    /\ op' = "sort"
    /\ UNCHANGED <<group, in_left, in_right, result, cursor, material, prepareVars, worldVars, buildVars>>

\* Intersections::hit
Hit ==
    /\ cursor = 0
    /\ found' = Intersections_hit(intersections)
    /\ op' = "hit"
    /\ UNCHANGED <<intersections, group, in_left, in_right, result, cursor, material, prepareVars, worldVars, buildVars>>

\* filter_by_group: entry, the locals are initialised
FilterEnter ==
    /\ cursor = 0
    /\ in_left' = FilterInit.in_left
    /\ in_right' = FilterInit.in_right
    /\ result' = FilterInit.result
    /\ cursor' = 1
    /\ found' = <<>>
    /\ op' = "filter_enter"
    /\ UNCHANGED <<intersections, group, material, prepareVars, worldVars, buildVars>>

\* filter_by_group: one iteration of the for loop
FilterNext ==
    /\ cursor >= 1
    /\ cursor <= Len(intersections)
    /\ LET acc == FilterStep(group,
                    [in_left |-> in_left, in_right |-> in_right, result |-> result],
                    intersections[cursor])
       IN /\ in_left' = acc.in_left
          /\ in_right' = acc.in_right
          /\ result' = acc.result
    /\ cursor' = cursor + 1
    /\ op' = "filter_next"
    /\ UNCHANGED <<intersections, group, found, material, prepareVars, worldVars, buildVars>>

\* filter_by_group: after the loop, self.intersections = result; the locals end
FilterReturn ==
    /\ cursor = Len(intersections) + 1
    /\ intersections' = result
    /\ in_left' = FilterInit.in_left
    /\ in_right' = FilterInit.in_right
    /\ result' = FilterInit.result
    /\ cursor' = 0
    /\ op' = "filter_by_group"
    /\ UNCHANGED <<group, found, material, prepareVars, worldVars, buildVars>>

LedgerNext ==
    \/ Insert
    \/ Clear
    \/ Sort
    \/ Hit
    \/ FilterEnter
    \/ FilterNext
    \/ FilterReturn

SpecLedger == LedgerInit /\ [][LedgerNext]_vars

\* -------------------------------------------------------------- World

\* Color::black() and Color::white(), one channel
Black == 0

White == 100

\* the product and the quotient of two reals
Mul(a, b) == (a * b) \div One

Div(a, b) == (a * One) \div b

RECURSIVE Powi(_, _)
\* f64::powi
Powi(x, n) ==
    IF n = 0 THEN One
    ELSE IF n % 2 = 0 THEN LET h == Powi(x, n \div 2) IN Mul(h, h)
    ELSE Mul(x, Powi(x, n - 1))

\* f64::sqrt on 0 ..= 1
Sqrt(x) == CHOOSE r \in 0 .. One : r * r <= x * One /\ (r + 1) * (r + 1) > x * One

\* Material::default(): ambient, diffuse, specular, shininess
Ambient == 10

Diffuse == 90

Specular == 90

Shininess == 200

\* schlick, with cos = eye.dot(normal)
schlick(cos, n_1, n_2) ==
    LET r0 == Powi(Div(n_1 - n_2, n_1 + n_2), 2)
        fresnel(c) == r0 + Mul(One - r0, Powi(One - c, 5))
    IN IF n_1 > n_2
       THEN LET n == Div(n_1, n_2)
                sin2_t == Mul(Powi(n, 2), One - Powi(cos, 2))
            IN IF sin2_t > One THEN One ELSE fresnel(Sqrt(One - sin2_t))
       ELSE fresnel(cos)

RECURSIVE PrepareLoop(_, _, _, _)
\* prepare_state: the for loop over the first k records of the ledger
PrepareLoop(mat, hit, s, k) ==
    IF k = 0 THEN PrepareInit
    ELSE PrepareStep(mat, PrepareLoop(mat, hit, s, k - 1), hit, s[k])

\* prepare_state: the State of a hit, of which the model keeps t, shape, n1, n2,
\* reflectance and cos_i = eye.dot(normal); the points and vectors of the State
\* decide where the next rays go, which the actions draw
prepare_state(mat, hit, cos, s) ==
    LET acc == PrepareLoop(mat, hit, s, Len(s))
    IN [t |-> hit.t, shape |-> hit.shape, n1 |-> acc.n1, n2 |-> acc.n2,
        reflectance |-> schlick(cos, acc.n1, acc.n2), cos_i |-> cos]

Shape_lighting_IgnoresShadow(shadowed, light_dot_normal, reflect_dot_eye) ==
    LET effective_color == Mul(White, White)
        ambient == Mul(effective_color, Ambient)
        lit == light_dot_normal >= 0
        diffuse == IF lit THEN Mul(Mul(effective_color, Diffuse), light_dot_normal)
                   ELSE Black
        specular == IF lit /\ reflect_dot_eye > 0
                    THEN Mul(Mul(White, Specular), Powi(reflect_dot_eye, Shininess))
                    ELSE Black
    IN ambient + diffuse + specular

\* Shape::lighting on a white plain pattern and a white light, with
\* light_dot_normal and reflect_dot_eye as the geometry gives them
Shape_lighting(shadowed, light_dot_normal, reflect_dot_eye) ==
    LET effective_color == Mul(White, White)
        ambient == Mul(effective_color, Ambient)
        lit == ~shadowed /\ light_dot_normal >= 0
        diffuse == IF lit THEN Mul(Mul(effective_color, Diffuse), light_dot_normal)
                   ELSE Black
        specular == IF lit /\ reflect_dot_eye > 0
                    THEN Mul(Mul(White, Specular), Powi(reflect_dot_eye, Shininess))
                    ELSE Black
    IN ambient + diffuse + specular

\* World.elements: two primitives
WorldElements == <<Primitive(0), Primitive(1)>>

\* Shape.casts_shadow: shape 1 is built with casts_shadow: false
casts_shadow == [s \in ShapeIds |-> s # 1]

\* what Element::intersect of one primitive inserts for a ray: nothing, or the
\* two crossings behind the origin, around the origin, from the origin on
ElementHits == {<<>>, <<-2, -1>>, <<-1, 1>>, <<0, 1>>}

\* the crossings of a ray with each element of the world
RayHits == [1 .. Len(WorldElements) -> ElementHits]

\* the distance from a point to a light
Distances == {1, 2}

\* eye.dot(normal) after prepare_state has turned the normal to the eye
CosValues == {0, One}

\* <<light_dot_normal, reflect_dot_eye>> of Shape::lighting
LightingGeometry == {<<-One, 0>>, <<One, One>>}

\* the materials of shape 0: matte, mirror, glass, and both
MaterialKinds ==
    {Material(0, 0, VACUUM), Material(One, 0, VACUUM), Material(0, One, 150),
     Material(50, 50, 150)}

\* the other shapes keep Material::default()
WorldMaterials ==
    {[s \in ShapeIds |-> IF s = 0 THEN m ELSE Material(0, 0, VACUUM)] : m \in MaterialKinds}

RECURSIVE World_intersect_elements(_, _)
\* World::intersect: the for loop over the first k elements
World_intersect_elements(hits, k) ==
    IF k = 0 THEN <<>>
    ELSE World_intersect_elements(hits, k - 1)
         \o [i \in 1 .. Len(hits[k]) |-> Intersection(hits[k][i], WorldElements[k].shape)]

\* Vec::clear
Vec_clear(ledger) == <<>>

\* a World::intersect that does not clear the ledger it is given
World_intersect_NoClear(ledger, hits) ==
    ledger \o World_intersect_elements(hits, Len(WorldElements))

\* World::intersect: the ledger is cleared, then every element inserts
World_intersect(ledger, hits) ==
    Vec_clear(ledger) \o World_intersect_elements(hits, Len(WorldElements))

World_is_shadowed_AtOrBeforeLight(ledger, hits, distance) ==
    LET s == SortByT(World_intersect(ledger, hits))
        hit == Intersections_hit(s)
    IN [intersections |-> s,
        shadowed |-> IF hit # <<>>
                     THEN casts_shadow[hit[1].shape] /\ hit[1].t <= distance
                     ELSE FALSE]

\* World::is_shadowed: the ledger it leaves and the bool it returns
World_is_shadowed(ledger, hits, distance) ==
    LET s == SortByT(World_intersect(ledger, hits))
        hit == Intersections_hit(s)
    IN [intersections |-> s,
        shadowed |-> IF hit # <<>>
                     THEN casts_shadow[hit[1].shape] /\ hit[1].t < distance
                     ELSE FALSE]

color_at_intersections_Unsorted(ledger, hits) == World_intersect(ledger, hits)

\* World::color_at: the ledger after intersect and sort
color_at_intersections(ledger, hits) == SortByT(World_intersect(ledger, hits))

reflected_color_black_FuelBelowZero(fuel, mat) == fuel < 0 \/ mat.reflective = 0

\* World::reflected_color: the condition of the branch that returns black
reflected_color_black(fuel, mat) == fuel <= 0 \/ mat.reflective = 0

\* World::refracted_color: the condition of the branch that returns black
refracted_color_black(fuel, mat) == fuel <= 0 \/ mat.transparency = 0

\* World::refracted_color: sin2_t > 1.0, total internal reflection
total_internal_reflection(state) ==
    LET n_ratio == Div(state.n1, state.n2)
        sin2_t == Mul(Powi(n_ratio, 2), One - Powi(state.cos_i, 2))
    IN sin2_t > One

callee_fuel_Same(fuel) == fuel

\* the fuel reflected_color and refracted_color hand to color_at
callee_fuel(fuel) == fuel - 1

\* an activation of color_at(ray, fuel, intersections), with the locals of the
\* shade_hit it ends in; calls counts the calls of color_at its shade_hit has
\* made, which the program does not store
Frame(fuel) ==
    [fuel |-> fuel, pc |-> "color_at", state |-> <<>>, light |-> 1, color |-> Black,
     shadowed |-> FALSE, distance |-> 0, surface_color |-> Black,
     reflected_color |-> Black, refracted_color |-> Black, calls |-> 0]

\* the innermost activation
Top == stack[Len(stack)]

\* the innermost activation returns color: to the caller waiting in
\* reflected_color or refracted_color, or out of the outermost color_at
Return(color) ==
    LET rest == SubSeq(stack, 1, Len(stack) - 1)
        caller == rest[Len(rest)]
        mat == material[caller.state[1].shape]
    IN IF rest = <<>>
       THEN /\ stack' = <<>>
            /\ pixel' = <<color>>
       ELSE /\ pixel' = pixel
            /\ stack' =
                 [rest EXCEPT ![Len(rest)] =
                    IF caller.pc = "reflected_color_call"
                    THEN [caller EXCEPT !.reflected_color = Mul(color, mat.reflective),
                                        !.pc = "refracted_color"]
                    ELSE [caller EXCEPT !.refracted_color = Mul(color, mat.transparency),
                                        !.pc = "combine"]]

\* a world of two elements and at most MaxLights lights; color_at is called
\* with a new ledger and a fuel of -1 .. MaxFuel
Init ==
    /\ intersections = <<>>
    /\ material \in WorldMaterials
    /\ lights \in 0 .. MaxLights
    /\ stack \in {<<Frame(fuel)>> : fuel \in -1 .. MaxFuel}
    /\ pixel = <<>>
    /\ PrepareIdle
    /\ BuildIdle
    /\ group = Composite("Aggregation", <<>>)
    /\ in_left = FilterInit.in_left
    /\ in_right = FilterInit.in_right
    /\ result = FilterInit.result
    /\ cursor = 0
    /\ found = <<>>
    /\ op = "color_at"

\* World::color_at up to the call of shade_hit, or to its return of black
ColorAt ==
    /\ stack # <<>>
    /\ Top.pc = "color_at"
    /\ \E hits \in RayHits, cos \in CosValues :
         LET s == color_at_intersections(intersections, hits)
             hit == Intersections_hit(s)
         IN /\ intersections' = s
            /\ IF hit = <<>>
               THEN Return(Black)
               ELSE /\ stack' = [stack EXCEPT ![Len(stack)] =
                          [@ EXCEPT !.pc = "shade_hit",
                                    !.state = <<prepare_state(material, hit[1], cos, s)>>]]
                    /\ pixel' = pixel
    /\ UNCHANGED <<material, lights, ledgerVars, prepareVars, buildVars>>

\* a shade_hit whose loop body also runs when the world has no light
ShadeHitLight_AtLeastOnce ==
    /\ stack # <<>>
    /\ Top.pc = "shade_hit"
    /\ Top.light <= lights \/ Top.light = 1
    /\ \E hits \in RayHits, distance \in Distances, geometry \in LightingGeometry :
         LET is_shadowed == World_is_shadowed(intersections, hits, distance)
         IN /\ intersections' = is_shadowed.intersections
            /\ stack' = [stack EXCEPT ![Len(stack)] =
                  [@ EXCEPT !.pc = "reflected_color",
                            !.shadowed = is_shadowed.shadowed,
                            !.distance = distance,
                            !.surface_color =
                                Shape_lighting(is_shadowed.shadowed, geometry[1], geometry[2])]]
    /\ UNCHANGED <<material, lights, pixel, ledgerVars, prepareVars, buildVars>>

\* World::shade_hit: the head of the for loop over the lights, is_shadowed and
\* lighting for the next light
ShadeHitLight ==
    /\ stack # <<>>
    /\ Top.pc = "shade_hit"
    /\ Top.light <= lights
    /\ \E hits \in RayHits, distance \in Distances, geometry \in LightingGeometry :
         LET is_shadowed == World_is_shadowed(intersections, hits, distance)
         IN /\ intersections' = is_shadowed.intersections
            /\ stack' = [stack EXCEPT ![Len(stack)] =
                  [@ EXCEPT !.pc = "reflected_color",
                            !.shadowed = is_shadowed.shadowed,
                            !.distance = distance,
                            !.surface_color =
                                Shape_lighting(is_shadowed.shadowed, geometry[1], geometry[2])]]
    /\ UNCHANGED <<material, lights, pixel, ledgerVars, prepareVars, buildVars>>

\* World::shade_hit: the lights are exhausted; color_at returns the color
ShadeHitReturn ==
    /\ stack # <<>>
    /\ Top.pc = "shade_hit"
    /\ Top.light > lights
    /\ Return(Top.color)
    /\ UNCHANGED <<intersections, material, lights, ledgerVars, prepareVars, buildVars>>

\* World::reflected_color: black, or the call of color_at on the reflected ray
ReflectedColor ==
    /\ stack # <<>>
    /\ Top.pc = "reflected_color"
    /\ IF reflected_color_black(Top.fuel, material[Top.state[1].shape])
       THEN stack' = [stack EXCEPT ![Len(stack)] =
                [@ EXCEPT !.pc = "refracted_color", !.reflected_color = Black,
                          !.shadowed = FALSE, !.distance = 0]]
       ELSE stack' = Append([stack EXCEPT ![Len(stack)] =
                                [@ EXCEPT !.pc = "reflected_color_call",
                                          !.shadowed = FALSE, !.distance = 0,
                                          !.calls = @ + 1]],
                            Frame(callee_fuel(Top.fuel)))
    /\ UNCHANGED <<intersections, material, lights, pixel, ledgerVars, prepareVars, buildVars>>

\* World::refracted_color: black, or the call of color_at on the refracted ray
RefractedColor ==
    /\ stack # <<>>
    /\ Top.pc = "refracted_color"
    /\ IF \/ refracted_color_black(Top.fuel, material[Top.state[1].shape])
          \/ total_internal_reflection(Top.state[1])
       THEN stack' = [stack EXCEPT ![Len(stack)] =
                [@ EXCEPT !.pc = "combine", !.refracted_color = Black]]
       ELSE stack' = Append([stack EXCEPT ![Len(stack)] =
                                [@ EXCEPT !.pc = "refracted_color_call", !.calls = @ + 1]],
                            Frame(callee_fuel(Top.fuel)))
    /\ UNCHANGED <<intersections, material, lights, pixel, ledgerVars, prepareVars, buildVars>>

shade_hit_term_Either(mat, reflectance, surface_color, reflected_color, refracted_color) ==
    surface_color
    + (IF mat.reflective > 0 \/ mat.transparency > 0
       THEN Mul(reflected_color, reflectance) + Mul(refracted_color, One - reflectance)
       ELSE reflected_color + refracted_color)

\* World::shade_hit: what one light adds to color
shade_hit_term(mat, reflectance, surface_color, reflected_color, refracted_color) ==
    surface_color
    + (IF mat.reflective > 0 /\ mat.transparency > 0
       THEN Mul(reflected_color, reflectance) + Mul(refracted_color, One - reflectance)
       ELSE reflected_color + refracted_color)

\* World::shade_hit: color += ..., the end of the body of the for loop
Combine ==
    /\ stack # <<>>
    /\ Top.pc = "combine"
    /\ LET mat == material[Top.state[1].shape]
           reflectance == Top.state[1].reflectance
       IN stack' = [stack EXCEPT ![Len(stack)] =
              [@ EXCEPT !.pc = "shade_hit", !.light = @ + 1,
                        !.color = @ + shade_hit_term(mat, reflectance, Top.surface_color,
                                                     Top.reflected_color,
                                                     Top.refracted_color),
                        !.surface_color = Black, !.reflected_color = Black,
                        !.refracted_color = Black]]
    /\ UNCHANGED <<intersections, material, lights, pixel, ledgerVars, prepareVars, buildVars>>

Next ==
    \/ ColorAt
    \/ ShadeHitLight
    \/ ShadeHitReturn
    \/ ReflectedColor
    \/ RefractedColor
    \/ Combine

Spec == Init /\ [][Next]_vars

\* color_at is a sequential program: it takes its next step
FairSpec == Spec /\ WF_vars(Next)

\* ------------------------------------------------- the other machines idle

\* no ledger operation, prepare_state or color_at is running
CoreIdle ==
    /\ intersections = <<>>
    /\ material = DefaultMaterials
    /\ group = Composite("Aggregation", <<>>)
    /\ in_left = FilterInit.in_left
    /\ in_right = FilterInit.in_right
    /\ result = FilterInit.result
    /\ cursor = 0
    /\ found = <<>>
    /\ op = "idle"
    /\ PrepareIdle
    /\ WorldIdle

coreVars == <<intersections, material, ledgerVars, prepareVars, worldVars>>

\* ----------------------------------------------------------- Shape ids

\* next_id: the id it returns and the value it leaves in the cell
next_id(cell) == [id |-> cell, cell |-> cell + 1]

\* the geometries the shapes are built with
Geometries == {"Sphere", "Cube"}

\* Shape::shape: the Shape, of which the model keeps id and geometry; serial
\* is the number of the construction and thread where it ran, which the code
\* does not store
Shape_shape(geometry, id, thread, serial) ==
    [id |-> id, geometry |-> geometry, thread |-> thread, serial |-> serial,
     clone |-> FALSE]

\* impl PartialEq for Shape
Shape_eq(a, b) == a.id = b.id

\* impl Hash for Shape: what is fed to the hasher
Shape_hash(a) == a.id

\* no shape is built yet, every thread's ID is 0
ShapesInit ==
    /\ CoreIdle
    /\ BuildIdle

\* Shape::shape on a thread: next_id reads and advances that thread's ID
Construct ==
    /\ Len(built) < MaxShapes
    /\ \E thread \in Threads, geometry \in Geometries :
         LET next == next_id(ID[thread])
             serial == Cardinality({i \in 1 .. Len(built) : ~built[i].clone}) + 1
         IN /\ ID' = [ID EXCEPT ![thread] = next.cell]
            /\ built' = Append(built, Shape_shape(geometry, next.id, thread, serial))
    /\ UNCHANGED <<coreVars, compositeVars, traverseVars, boxVars, renderVars, lightingVars, queryVars>>

\* #[derive(Clone)] for Shape: every field is copied, the id with them
Clone ==
    /\ Len(built) < MaxShapes
    /\ \E i \in 1 .. Len(built) :
         built' = Append(built, [built[i] EXCEPT !.clone = TRUE])
    /\ UNCHANGED <<ID, coreVars, compositeVars, traverseVars, boxVars, renderVars, lightingVars, queryVars>>

ShapesNext ==
    \/ Construct
    \/ Clone

SpecShapes == ShapesInit /\ [][ShapesNext]_vars

\* --------------------------------------------------------------- f64

\* f64::INFINITY, f64::NEG_INFINITY and NaN; every other f64 of the boxes is
\* an integer strictly between the infinities
INFINITY == 1000

NEG_INFINITY == -1000

NAN == 9999

\* -a
FNeg(a) == IF a = NAN THEN NAN ELSE -a

\* a + b: the sum of opposite infinities is NaN
FAdd(a, b) ==
    IF a = NAN \/ b = NAN THEN NAN
    ELSE IF a = INFINITY THEN (IF b = NEG_INFINITY THEN NAN ELSE INFINITY)
    ELSE IF a = NEG_INFINITY THEN (IF b = INFINITY THEN NAN ELSE NEG_INFINITY)
    ELSE IF b = INFINITY \/ b = NEG_INFINITY THEN b
    ELSE a + b

\* a - b
FSub(a, b) == FAdd(a, FNeg(b))

\* a * b: zero times an infinity is NaN
FMul(a, b) ==
    IF a = NAN \/ b = NAN THEN NAN
    ELSE IF a \in {INFINITY, NEG_INFINITY} \/ b \in {INFINITY, NEG_INFINITY}
         THEN IF a = 0 \/ b = 0 THEN NAN
              ELSE IF (a > 0) = (b > 0) THEN INFINITY ELSE NEG_INFINITY
    ELSE a * b

\* a / d for a direction d of 1 or -1
FDiv(a, d) == IF d > 0 THEN a ELSE FNeg(a)

\* f64::min and f64::max: a NaN argument is ignored
FMin(a, b) == IF a = NAN THEN b ELSE IF b = NAN THEN a ELSE IF a <= b THEN a ELSE b

FMax(a, b) == IF a = NAN THEN b ELSE IF b = NAN THEN a ELSE IF a >= b THEN a ELSE b

\* a <= b and a > b: false when an argument is NaN
FLe(a, b) == a # NAN /\ b # NAN /\ a <= b

FGt(a, b) == a # NAN /\ b # NAN /\ a > b

\* Vector::point
Vector_point(x, y, z) == <<x, y, z, 1>>

\* Matrix::id, Matrix::translation, Matrix::scaling, as rows
Matrix_id == <<<<1, 0, 0, 0>>, <<0, 1, 0, 0>>, <<0, 0, 1, 0>>, <<0, 0, 0, 1>>>>

Matrix_translation(x, y, z) ==
    <<<<1, 0, 0, x>>, <<0, 1, 0, y>>, <<0, 0, 1, z>>, <<0, 0, 0, 1>>>>

Matrix_scaling(x, y, z) ==
    <<<<x, 0, 0, 0>>, <<0, y, 0, 0>>, <<0, 0, z, 0>>, <<0, 0, 0, 1>>>>

\* Matrix * Vector
Matrix_mul_vector(m, v) ==
    [i \in 1 .. 4 |->
        FAdd(FAdd(FAdd(FMul(m[i][1], v[1]), FMul(m[i][2], v[2])), FMul(m[i][3], v[3])),
             FMul(m[i][4], v[4]))]

\* Matrix * Matrix
Matrix_mul(a, b) ==
    [i \in 1 .. 4 |-> [j \in 1 .. 4 |->
        FAdd(FAdd(FAdd(FMul(a[i][1], b[1][j]), FMul(a[i][2], b[2][j])), FMul(a[i][3], b[3][j])),
             FMul(a[i][4], b[4][j]))]]

\* ------------------------------------------------------- BoundingBox

\* BoundingBox::new
BoundingBox_new(min, max) == [min |-> min, max |-> max]

\* BoundingBox::empty
BoundingBox_empty ==
    BoundingBox_new(Vector_point(INFINITY, INFINITY, INFINITY),
                    Vector_point(NEG_INFINITY, NEG_INFINITY, NEG_INFINITY))

\* BoundingBox::insert
BoundingBox_insert(self_, point) ==
    BoundingBox_new(
        Vector_point(FMin(self_.min[1], point[1]), FMin(self_.min[2], point[2]),
                     FMin(self_.min[3], point[3])),
        Vector_point(FMax(self_.max[1], point[1]), FMax(self_.max[2], point[2]),
                     FMax(self_.max[3], point[3])))

\* BoundingBox::union
BoundingBox_union(self_, other) ==
    BoundingBox_insert(BoundingBox_insert(self_, other.min), other.max)

\* BoundingBox::contains
BoundingBox_contains(self_, point) ==
    /\ FLe(self_.min[1], point[1]) /\ FLe(point[1], self_.max[1])
    /\ FLe(self_.min[2], point[2]) /\ FLe(point[2], self_.max[2])
    /\ FLe(self_.min[3], point[3]) /\ FLe(point[3], self_.max[3])

\* BoundingBox::encloses
BoundingBox_encloses(self_, other) ==
    BoundingBox_contains(self_, other.min) /\ BoundingBox_contains(self_, other.max)

\* BoundingBox::transform: the eight corners p1 .. p8 in the order of the code
BoundingBox_corners(self_) ==
    <<self_.min,
      Vector_point(self_.min[1], self_.min[2], self_.max[3]),
      Vector_point(self_.min[1], self_.max[2], self_.min[3]),
      Vector_point(self_.min[1], self_.max[2], self_.max[3]),
      Vector_point(self_.max[1], self_.min[2], self_.min[3]),
      Vector_point(self_.max[1], self_.min[2], self_.max[3]),
      Vector_point(self_.max[1], self_.max[2], self_.min[3]),
      self_.max>>

RECURSIVE BoundingBox_transform_loop(_, _, _)
\* BoundingBox::transform: the for loop over the first k corners
BoundingBox_transform_loop(corners, matrix, k) ==
    IF k = 0 THEN BoundingBox_empty
    ELSE BoundingBox_insert(BoundingBox_transform_loop(corners, matrix, k - 1),
                            Matrix_mul_vector(matrix, corners[k]))

\* BoundingBox::transform
BoundingBox_transform(self_, matrix) ==
    BoundingBox_transform_loop(BoundingBox_corners(self_), matrix, 8)

\* Geometry::intersect_cube_axis, for a direction of -1, 0 or 1
intersect_cube_axis(origin, direction, min, max) ==
    LET t_min_numerator == FSub(min, origin)
        t_max_numerator == FSub(max, origin)
        t_min == IF direction # 0 THEN FDiv(t_min_numerator, direction)
                 ELSE FMul(t_min_numerator, INFINITY)
        t_max == IF direction # 0 THEN FDiv(t_max_numerator, direction)
                 ELSE FMul(t_max_numerator, INFINITY)
    IN IF FGt(t_min, t_max) THEN <<t_max, t_min>> ELSE <<t_min, t_max>>

\* Ray {origin, direction}
Ray(origin, direction) == [origin |-> origin, direction |-> direction]

\* BoundingBox::intersects
BoundingBox_intersects(self_, ray) ==
    LET x == intersect_cube_axis(ray.origin[1], ray.direction[1], self_.min[1], self_.max[1])
        y == intersect_cube_axis(ray.origin[2], ray.direction[2], self_.min[2], self_.max[2])
        z == intersect_cube_axis(ray.origin[3], ray.direction[3], self_.min[3], self_.max[3])
        t_min == FMax(FMax(x[1], y[1]), z[1])
        t_max == FMin(FMin(x[2], y[2]), z[2])
    IN FLe(t_min, t_max)

\* ---------------------------------------------------- Element::composite

\* enum Geometry: one record shape for every variant; min, max, closed are of
\* Cylinder and Cone, p1, p2, p3 of Triangle and SmoothTriangle
Geometry(kind, min, max, closed, p1, p2, p3) ==
    [kind |-> kind, min |-> min, max |-> max, closed |-> closed,
     p1 |-> p1, p2 |-> p2, p3 |-> p3]

Geometry_Sphere == Geometry("Sphere", 0, 0, FALSE, <<>>, <<>>, <<>>)

Geometry_Plane == Geometry("Plane", 0, 0, FALSE, <<>>, <<>>, <<>>)

Geometry_Cube == Geometry("Cube", 0, 0, FALSE, <<>>, <<>>, <<>>)

Geometry_Cylinder(min, max, closed) == Geometry("Cylinder", min, max, closed, <<>>, <<>>, <<>>)

Geometry_Cone(min, max, closed) == Geometry("Cone", min, max, closed, <<>>, <<>>, <<>>)

Geometry_Triangle(p1, p2, p3) == Geometry("Triangle", 0, 0, FALSE, p1, p2, p3)

\* f64::abs on a number that is not NaN
FAbs(a) == IF a < 0 THEN -a ELSE a

\* Geometry::bbox
Geometry_bbox(g) ==
    CASE g.kind \in {"Sphere", "Cube"} ->
            BoundingBox_new(Vector_point(-1, -1, -1), Vector_point(1, 1, 1))
      [] g.kind = "Plane" ->
            BoundingBox_new(Vector_point(NEG_INFINITY, 0, NEG_INFINITY),
                            Vector_point(INFINITY, 0, INFINITY))
      [] g.kind = "Cylinder" ->
            IF g.closed
            THEN BoundingBox_new(Vector_point(-1, g.min, -1), Vector_point(1, g.max, 1))
            ELSE BoundingBox_new(Vector_point(-1, NEG_INFINITY, -1),
                                 Vector_point(1, INFINITY, 1))
      [] g.kind = "Cone" ->
            IF g.closed
            THEN LET limit == FMax(FAbs(g.min), FAbs(g.max))
                 IN BoundingBox_new(Vector_point(-limit, g.min, -limit),
                                    Vector_point(limit, g.max, limit))
            ELSE BoundingBox_new(
                     Vector_point(NEG_INFINITY, NEG_INFINITY, NEG_INFINITY),
                     Vector_point(INFINITY, INFINITY, INFINITY))
      [] OTHER ->
            BoundingBox_insert(
                BoundingBox_insert(BoundingBox_insert(BoundingBox_empty, g.p1), g.p2), g.p3)

\* Element::Primitive(Shape::shape(args, geometry)): shape is the id; transform
\* is the matrix whose inverse the code keeps in transform_inv
Shape_element(id, transform, mat, geometry) ==
    [type |-> "Primitive", shape |-> id, kind |-> "", children |-> <<>>,
     bbox |-> BoundingBox_transform(Geometry_bbox(geometry), transform),
     transform |-> transform, material |-> mat, geometry |-> geometry]

\* Element::Composite(Group {kind, bbox, children})
Group_element(kind, box, children) ==
    [type |-> "Composite", shape |-> -1, kind |-> kind, children |-> children,
     bbox |-> box, transform |-> Matrix_id, material |-> Material(0, 0, VACUUM),
     geometry |-> Geometry("", 0, 0, FALSE, <<>>, <<>>, <<>>)]

\* Element::bbox
Element_bbox(element) == element.bbox

RECURSIVE propagate_inverses(_, _, _)
\* Element::propagate_inverses: shape.transform_inv * inv is the inverse of
\* transform * (the shape's matrix); material is None (<<>>) or Some
propagate_inverses(element, transform, mat) ==
    IF element.type = "Composite"
    THEN [element EXCEPT
            !.children = [i \in 1 .. Len(element.children) |->
                            propagate_inverses(element.children[i], transform, mat)],
            !.bbox = BoundingBox_transform(element.bbox, transform)]
    ELSE [element EXCEPT
            !.transform = Matrix_mul(transform, element.transform),
            !.material = IF mat # <<>> THEN mat[1] ELSE @]

RECURSIVE composite_bbox(_, _)
\* Element::composite: the for loop that unites the boxes of the first k children
composite_bbox(children, k) ==
    IF k = 0 THEN BoundingBox_empty
    ELSE BoundingBox_union(composite_bbox(children, k - 1), Element_bbox(children[k]))

composite_assertion_AtMostTwo(kind, children) ==
    kind = "Aggregation" \/ Len(children) <= 2

\* Element::composite: the assert! holds
composite_assertion(kind, children) ==
    kind = "Aggregation" \/ Len(children) = 2

\* Element::composite: the Element it returns when the assert! holds
Element_composite(transform, mat, kind, children) ==
    propagate_inverses(
        Group_element(kind, composite_bbox(children, Len(children)), children),
        transform, mat)

RECURSIVE Element_depth(_)
\* how deep the groups of an element are nested
Element_depth(element) ==
    IF element.type = "Primitive" THEN 0
    ELSE LET depths == {Element_depth(element.children[i]) : i \in 1 .. Len(element.children)}
         IN 1 + (IF depths = {} THEN 0 ELSE CHOOSE d \in depths : \A e \in depths : e <= d)

\* the geometries and the args.transform the primitives of a group are built with
SceneGeometries == {Geometry_Sphere, Geometry_Plane}

ShapeTransforms == {Matrix_id, Matrix_scaling(2, 2, 2)}

\* the transforms that place a group
Transforms == {Matrix_id, Matrix_translation(3, 0, 0)}

\* Option<Material> of Element::composite
MaterialOptions == {<<>>, <<Material(One, 0, VACUUM)>>}

\* nothing is built yet
CompositeInit ==
    /\ CoreIdle
    /\ BuildIdle

\* Element::sphere and the like: a primitive is built on thread 0 and waits to
\* become a child
BuildPrimitive ==
    /\ ~panicked
    /\ Len(scene) < MaxChildren
    /\ ID[0] < MaxShapes
    /\ \E geometry \in SceneGeometries, transform \in ShapeTransforms :
         LET next == next_id(ID[0])
         IN /\ ID' = [ID EXCEPT ![0] = next.cell]
            /\ scene' = Append(scene,
                   Shape_element(next.id, transform, Material(0, 0, VACUUM), geometry))
    /\ composed' = <<>>
    /\ UNCHANGED <<built, panicked, coreVars, traverseVars, boxVars, renderVars, lightingVars, queryVars>>

\* Element::composite on the elements built so far: the group replaces them, or
\* the assert! fails and nothing is returned
Compose ==
    /\ ~panicked
    /\ \A i \in 1 .. Len(scene) : Element_depth(scene[i]) < MaxDepth
    /\ \E transform \in Transforms, mat \in MaterialOptions, kind \in GroupKinds :
         /\ composed' = <<[kind |-> kind, children |-> Len(scene)]>>
         /\ IF composite_assertion(kind, scene)
            THEN /\ scene' = <<Element_composite(transform, mat, kind, scene)>>
                 /\ panicked' = FALSE
            ELSE /\ scene' = <<>>
                 /\ panicked' = TRUE
    /\ UNCHANGED <<ID, built, coreVars, traverseVars, boxVars, renderVars, lightingVars, queryVars>>

CompositeNext ==
    \/ BuildPrimitive
    \/ Compose

SpecComposite == CompositeInit /\ [][CompositeNext]_vars

\* ------------------------------------------------------ Group::intersect

\* Vec::append, as shape.rs:247 calls it on the ledger: tmp is moved behind
\* the records of the ledger
Intersections_append(ledger, tmp) == ledger \o tmp

RECURSIVE filter_by_group_loop(_, _, _)
\* Intersections::filter_by_group: the for loop over the first k records
filter_by_group_loop(g, records, k) ==
    IF k = 0 THEN FilterInit
    ELSE FilterStep(g, filter_by_group_loop(g, records, k - 1), records[k])

\* Intersections::filter_by_group: the ledger it leaves
Intersections_filter_by_group(records, g) ==
    filter_by_group_loop(g, records, Len(records)).result

\* Shape::intersect: hits[id] are the t the geometry of shape id finds on the
\* ray, in the order it inserts them
Shape_intersect(element, hits, acc) ==
    [acc EXCEPT !.intersections =
        @ \o [i \in 1 .. Len(hits[element.shape]) |->
                Intersection(hits[element.shape][i], element.shape)]]

RECURSIVE Element_intersect(_, _, _, _)
RECURSIVE Group_intersect(_, _, _, _)
RECURSIVE Group_intersect_children(_, _, _, _, _)

\* Group::intersect: the for loop over the first k children
Group_intersect_children(g, r, hits, acc, k) ==
    IF k = 0 THEN acc
    ELSE Element_intersect(g.children[k], r, hits,
                           Group_intersect_children(g, r, hits, acc, k - 1))

\* a group that sorts and filters the caller's ledger in place
Group_intersect_InPlace(g, r, hits, acc) ==
    IF BoundingBox_intersects(g.bbox, r)
    THEN LET all == Group_intersect_children(g, r, hits, acc, Len(g.children))
         IN IF g.kind = "Aggregation" THEN all
            ELSE [all EXCEPT !.intersections =
                     Intersections_filter_by_group(SortByT(all.intersections), g)]
    ELSE acc

Group_intersect_NoBoxTest(g, r, hits, acc) ==
    IF g.kind = "Aggregation"
    THEN Group_intersect_children(g, r, hits, acc, Len(g.children))
    ELSE LET tmp == Group_intersect_children(
                        g, r, hits, [acc EXCEPT !.intersections = <<>>], Len(g.children))
         IN [intersections |->
                Intersections_append(
                    acc.intersections,
                    Intersections_filter_by_group(SortByT(tmp.intersections), g)),
             visited |-> tmp.visited]

\* Group::intersect: acc is the caller's ledger and the children visited so far
Group_intersect(g, r, hits, acc) ==
    IF BoundingBox_intersects(g.bbox, r)
    THEN IF g.kind = "Aggregation"
         THEN Group_intersect_children(g, r, hits, acc, Len(g.children))
         ELSE LET tmp == Group_intersect_children(
                             g, r, hits, [acc EXCEPT !.intersections = <<>>],
                             Len(g.children))
              IN [intersections |->
                     Intersections_append(
                         acc.intersections,
                         Intersections_filter_by_group(SortByT(tmp.intersections), g)),
                  visited |-> tmp.visited]
    ELSE acc

\* Element::intersect
Element_intersect(element, r, hits, acc) ==
    LET seen == [acc EXCEPT !.visited = Append(@, element.shape)]
    IN IF element.type = "Composite"
       THEN Group_intersect(element, r, hits, seen)
       ELSE Shape_intersect(element, hits, seen)

\* a sphere and a cube of twice the size, combined and placed
GroupPair(kind, transform) ==
    Element_composite(
        transform, <<>>, kind,
        <<Shape_element(0, Matrix_id, Material(0, 0, VACUUM), Geometry_Sphere),
          Shape_element(1, Matrix_scaling(2, 2, 2), Material(0, 0, VACUUM), Geometry_Cube)>>)

\* the groups a ray is sent through: the pairs, a sphere next to a pair that is
\* moved away, and the group without children
GroupScenes ==
    {GroupPair(kind, transform) : kind \in GroupKinds, transform \in Transforms}
    \cup {Element_composite(
              Matrix_id, <<>>, "Aggregation",
              <<Shape_element(2, Matrix_id, Material(0, 0, VACUUM), Geometry_Sphere),
                GroupPair(kind, Matrix_translation(3, 0, 0))>>) : kind \in GroupKinds}
    \cup {Element_composite(Matrix_id, <<>>, "Aggregation", <<>>)}

\* rays along z through the origin, through x = 3 and above everything, and a
\* ray along x
Rays ==
    {Ray(Vector_point(0, 0, -5), <<0, 0, 1, 0>>),
     Ray(Vector_point(3, 0, -5), <<0, 0, 1, 0>>),
     Ray(Vector_point(0, 9, -5), <<0, 0, 1, 0>>),
     Ray(Vector_point(-9, 0, 0), <<1, 0, 0, 0>>)}

\* what the geometries find on a ray: shape id -> the t it inserts
GroupHits == [0 .. MaxShapes - 1 -> ElementHits]

\* a group is built and the ledger is new
GroupInit ==
    /\ CoreIdle
    /\ ID = [thread \in Threads |-> 0]
    /\ built = <<>>
    /\ scene \in {<<g>> : g \in GroupScenes}
    /\ panicked = FALSE
    /\ composed = <<>>
    /\ cast = <<>>
    /\ visited = <<>>
    /\ bbox = <<>>
    /\ out = <<>>
    /\ inserted = <<>>
    /\ camera = <<>>
    /\ tasks = <<>>
    /\ ledgers = <<>>
    /\ pixels = <<>>
    /\ lighting_args = <<>>
    /\ lighting_result = <<>>
    /\ query = <<>>
    /\ answer = <<>>

\* group.intersect(ray, &mut intersections) on the ledger as earlier calls left it
GroupIntersect ==
    /\ Len(intersections) < MaxLen
    /\ \E r \in Rays, hits \in GroupHits :
         LET acc == Group_intersect(scene[1], r, hits,
                                    [intersections |-> intersections, visited |-> <<>>])
         IN /\ intersections' = acc.intersections
            /\ visited' = acc.visited
            /\ cast' = <<r>>
    /\ UNCHANGED <<material, ledgerVars, prepareVars, worldVars, idVars, compositeVars,
                   boxVars, renderVars, lightingVars, queryVars>>

GroupNext == GroupIntersect

SpecGroup == GroupInit /\ [][GroupNext]_vars

\* ------------------------------------------- Shape::intersect on a ray

\* the rows or columns 1 .. 4 without k, in order
Without(k) == SelectSeq(<<1, 2, 3, 4>>, LAMBDA x : x # k)

\* the determinant of m without row i and column j
Matrix_minor(m, i, j) ==
    LET r == Without(i)
        c == Without(j)
    IN   m[r[1]][c[1]] * (m[r[2]][c[2]] * m[r[3]][c[3]] - m[r[2]][c[3]] * m[r[3]][c[2]])
       - m[r[1]][c[2]] * (m[r[2]][c[1]] * m[r[3]][c[3]] - m[r[2]][c[3]] * m[r[3]][c[1]])
       + m[r[1]][c[3]] * (m[r[2]][c[1]] * m[r[3]][c[2]] - m[r[2]][c[2]] * m[r[3]][c[1]])

\* Matrix::inverse: the adjugate over the determinant, for a matrix of finite
\* entries whose determinant is 1 or -1 (dividing by it is multiplying by it)
Matrix_inverse(m) ==
    LET sign(i, j) == IF (i + j) % 2 = 0 THEN 1 ELSE -1
        det == m[1][1] * Matrix_minor(m, 1, 1) - m[1][2] * Matrix_minor(m, 1, 2)
               + m[1][3] * Matrix_minor(m, 1, 3) - m[1][4] * Matrix_minor(m, 1, 4)
    IN [i \in 1 .. 4 |-> [j \in 1 .. 4 |-> sign(i, j) * Matrix_minor(m, j, i) * det]]

\* Ray::transform
Ray_transform(self_, matrix) ==
    Ray(Matrix_mul_vector(matrix, self_.origin), Matrix_mul_vector(matrix, self_.direction))

\* Ray::position, for a finite t
Ray_position(self_, t) ==
    [i \in 1 .. 4 |-> self_.origin[i] + self_.direction[i] * t]

\* Vector::dot
Vector_dot(a, b) == a[1] * b[1] + a[2] * b[2] + a[3] * b[3]

\* Geometry::intersect_sphere, for a ray whose direction is a unit vector along
\* an axis and whose origin is a point of integers: the discriminant is then 0
\* or 4 when it is not negative
intersect_sphere(r) ==
    LET sphere_to_ray == [i \in 1 .. 4 |-> r.origin[i] - Vector_point(0, 0, 0)[i]]
        a == Vector_dot(r.direction, r.direction)
        b == 2 * Vector_dot(r.direction, sphere_to_ray)
        c == Vector_dot(sphere_to_ray, sphere_to_ray) - 1
        discriminant == b * b - 4 * a * c
        root == CHOOSE k \in 0 .. 2 : k * k = discriminant
    IN IF discriminant < 0 THEN <<>>
       ELSE <<(-b - root) \div (2 * a), (-b + root) \div (2 * a)>>

\* Geometry::intersect_plane, for a direction whose y is -1, 0 or 1
intersect_plane(r) ==
    IF r.direction[2] = 0 THEN <<>>
    ELSE <<FDiv(-r.origin[2], r.direction[2])>>

\* Geometry::intersect_cube
intersect_cube(r) ==
    LET x == intersect_cube_axis(r.origin[1], r.direction[1], -1, 1)
        y == intersect_cube_axis(r.origin[2], r.direction[2], -1, 1)
        z == intersect_cube_axis(r.origin[3], r.direction[3], -1, 1)
        t_min == FMax(FMax(x[1], y[1]), z[1])
        t_max == FMin(FMin(x[2], y[2]), z[2])
    IN IF FLe(t_min, t_max) THEN <<t_min, t_max>> ELSE <<>>

\* Geometry::intersect: the t of the records it inserts, in order
Geometry_intersect(g, r) ==
    CASE g.kind = "Sphere" -> intersect_sphere(r)
      [] g.kind = "Plane" -> intersect_plane(r)
      [] g.kind = "Cube" -> intersect_cube(r)

RECURSIVE Element_primitives(_)
\* the primitives of the tree of an element
Element_primitives(element) ==
    IF element.type = "Primitive" THEN {element}
    ELSE UNION {Element_primitives(element.children[i]) : i \in 1 .. Len(element.children)}

\* Shape::intersect of every shape of the tree: the ray is taken into the
\* shape's space by transform_inv and handed to the geometry
SceneHits(element, r) ==
    [id \in 0 .. MaxShapes - 1 |->
        IF \E p \in Element_primitives(element) : p.shape = id
        THEN LET p == CHOOSE q \in Element_primitives(element) : q.shape = id
             IN Geometry_intersect(p.geometry,
                                   Ray_transform(r, Matrix_inverse(p.transform)))
        ELSE <<>>]

\* the geometries whose intersect is modelled and the args.transform of a shape
PruneGeometries == {Geometry_Sphere, Geometry_Plane, Geometry_Cube}

PruneTransforms == {Matrix_id, Matrix_translation(3, 0, 0), Matrix_scaling(-1, 1, 1)}

\* a shape alone, and a shape with a unit sphere in a placed group
PruneScenes ==
    LET shape(geometry, transform) ==
            Shape_element(0, transform, Material(0, 0, VACUUM), geometry)
        sphere == Shape_element(1, Matrix_id, Material(0, 0, VACUUM), Geometry_Sphere)
    IN {shape(geometry, transform) :
            geometry \in PruneGeometries, transform \in PruneTransforms}
       \cup {Element_composite(placement, <<>>, kind, <<shape(geometry, transform), sphere>>) :
                geometry \in PruneGeometries, transform \in PruneTransforms,
                placement \in Transforms, kind \in {"Aggregation", "Union"}}

\* rays along the axes: down and up through the origin and through x = 3,
\* along z and along x
PruneRays ==
    {Ray(Vector_point(0, 5, 0), <<0, -1, 0, 0>>),
     Ray(Vector_point(3, -5, 0), <<0, 1, 0, 0>>),
     Ray(Vector_point(6, 5, 0), <<0, -1, 0, 0>>),
     Ray(Vector_point(0, 0, -5), <<0, 0, 1, 0>>),
     Ray(Vector_point(3, 1, -5), <<0, 0, 1, 0>>),
     Ray(Vector_point(-9, 0, 0), <<1, 0, 0, 0>>)}

\* a scene is built
PruneInit ==
    /\ CoreIdle
    /\ ID = [thread \in Threads |-> 0]
    /\ built = <<>>
    /\ scene \in {<<element>> : element \in PruneScenes}
    /\ panicked = FALSE
    /\ composed = <<>>
    /\ cast = <<>>
    /\ visited = <<>>
    /\ bbox = <<>>
    /\ out = <<>>
    /\ inserted = <<>>
    /\ camera = <<>>
    /\ tasks = <<>>
    /\ ledgers = <<>>
    /\ pixels = <<>>
    /\ lighting_args = <<>>
    /\ lighting_result = <<>>
    /\ query = <<>>
    /\ answer = <<>>

\* element.intersect(ray, &mut intersections) on a new ledger
Cast ==
    /\ \E r \in PruneRays :
         LET acc == Element_intersect(scene[1], r, SceneHits(scene[1], r),
                                      [intersections |-> <<>>, visited |-> <<>>])
         IN /\ intersections' = acc.intersections
            /\ visited' = acc.visited
            /\ cast' = <<r>>
    /\ UNCHANGED <<material, ledgerVars, prepareVars, worldVars, idVars, compositeVars,
                   boxVars, renderVars, lightingVars, queryVars>>

PruneNext == Cast

SpecPrune == PruneInit /\ [][PruneNext]_vars

\* ------------------------------------------------- BoundingBox::insert

\* the points handed to insert: the two of tests::insert, the origin, and the
\* first corner of the box of a Plane and of an open Cylinder as
\* BoundingBox::transform hands them over under the identity
BoxPoints ==
    {Vector_point(-5, 2, 0), Vector_point(7, 0, -3), Vector_point(0, 0, 0),
     Matrix_mul_vector(Matrix_id, Geometry_bbox(Geometry_Plane).min),
     Matrix_mul_vector(Matrix_id, Geometry_bbox(Geometry_Cylinder(0, 0, FALSE)).min)}

\* let bbox = BoundingBox::empty()
BoxInit ==
    /\ CoreIdle
    /\ ID = [thread \in Threads |-> 0]
    /\ built = <<>>
    /\ scene = <<>>
    /\ panicked = FALSE
    /\ composed = <<>>
    /\ cast = <<>>
    /\ visited = <<>>
    /\ bbox = BoundingBox_empty
    /\ out = <<>>
    /\ inserted = <<>>
    /\ camera = <<>>
    /\ tasks = <<>>
    /\ ledgers = <<>>
    /\ pixels = <<>>
    /\ lighting_args = <<>>
    /\ lighting_result = <<>>
    /\ query = <<>>
    /\ answer = <<>>

\* bbox.insert(point): the box it returns is kept next to the receiver, with
\* the point and with the receiver as it was when insert was called
BoxInsert ==
    /\ Len(inserted) < MaxInserts
    /\ \E point \in BoxPoints :
         out' = <<[box |-> BoundingBox_insert(bbox, point), point |-> point,
                   receiver |-> bbox]>>
    /\ UNCHANGED <<bbox, inserted, coreVars, idVars, compositeVars, traverseVars,
                   renderVars, lightingVars, queryVars>>

\* let bbox = bbox.insert(point): the returned box becomes the receiver of the
\* next call, as in the chain of tests::insert
BoxRebind ==
    /\ out # <<>>
    /\ bbox' = out[1].box
    /\ inserted' = Append(inserted, out[1].point)
    /\ out' = <<>>
    /\ UNCHANGED <<coreVars, idVars, compositeVars, traverseVars, renderVars, lightingVars, queryVars>>

BoxNext ==
    \/ BoxInsert
    \/ BoxRebind

SpecBox == BoxInit /\ [][BoxNext]_vars

\* ------------------------------------------------- Image::par_render

\* a ray of the camera, known by what the world of two matte elements and one
\* light holds on it: the crossings with each element, those of the shadow ray
\* from the hit, and the distance from the hit to the light
CameraRay(hits, shadow_hits, distance) ==
    [hits |-> hits, shadow_hits |-> shadow_hits, distance |-> distance]

\* a ray that misses, one that hits shape 0 in the light, and one that hits
\* shape 1 in the shadow of shape 0
CameraRays ==
    {CameraRay(<<<<>>, <<>>>>, <<<<>>, <<>>>>, 2),
     CameraRay(<<<<0, 1>>, <<>>>>, <<<<>>, <<>>>>, 2),
     CameraRay(<<<<-1, 1>>, <<0, 1>>>>, <<<<0, 1>>, <<>>>>, 2)}

\* the cameras of hsize x vsize pixels
Cameras ==
    {[hsize |-> HSize, vsize |-> VSize, rays |-> rays] :
        rays \in [(0 .. HSize - 1) \X (0 .. VSize - 1) -> CameraRays]}

\* Camera::ray_at_pixel
Camera_ray_at_pixel(self_, x, y) == self_.rays[<<x, y>>]

\* World::color_at for a world of matte elements and one light: reflected_color
\* and refracted_color are black, so shade_hit is the lighting of the hit
World_color_at(r) ==
    LET s == color_at_intersections(<<>>, r.hits)
        hit == Intersections_hit(s)
    IN IF hit # <<>>
       THEN Shape_lighting(World_is_shadowed(s, r.shadow_hits, r.distance).shadowed, One, One)
       ELSE Black

RECURSIVE render_row(_, _, _)
\* Image::render: the inner loop has pushed the pixels x = 0 .. k - 1 of row y
render_row(self_, y, k) ==
    IF k = 0 THEN <<>>
    ELSE Append(render_row(self_, y, k - 1),
                World_color_at(Camera_ray_at_pixel(self_, k - 1, y)))

RECURSIVE render_rows(_, _)
\* Image::render: the outer loop has pushed the rows y = 0 .. k - 1
render_rows(self_, k) ==
    IF k = 0 THEN <<>>
    ELSE render_rows(self_, k - 1) \o render_row(self_, k - 1, self_.hsize)

\* Image::render: the pixels of the Image
Image_render(self_) == render_rows(self_, self_.vsize)

\* the indices of par_render: 0 .. hsize * vsize - 1
Pixels == 0 .. HSize * VSize - 1

par_render_x_ByRow(i, hsize) == i \div hsize

\* par_render: let x = i % camera.hsize
par_render_x(i, hsize) == i % hsize

\* par_render: let y = i / camera.hsize
par_render_y(i, hsize) == i \div hsize

\* par_render: the ray of task i
par_render_ray(i) ==
    Camera_ray_at_pixel(camera, par_render_x(i, camera.hsize), par_render_y(i, camera.hsize))

ledger_of_Shared(i) == 0

\* the ledger the color_at of task i works on: one of its own
ledger_of(i) == i

\* par_render is called: no task has started
RenderInit ==
    /\ CoreIdle
    /\ ID = [thread \in Threads |-> 0]
    /\ built = <<>>
    /\ scene = <<>>
    /\ panicked = FALSE
    /\ composed = <<>>
    /\ cast = <<>>
    /\ visited = <<>>
    /\ bbox = <<>>
    /\ out = <<>>
    /\ inserted = <<>>
    /\ camera \in Cameras
    /\ tasks = [i \in Pixels |-> [pc |-> "start", hit |-> <<>>, color |-> Black]]
    /\ ledgers = [i \in Pixels |-> <<>>]
    /\ pixels = [i \in Pixels |-> <<>>]
    /\ lighting_args = <<>>
    /\ lighting_result = <<>>
    /\ query = <<>>
    /\ answer = <<>>

\* color_at of task i: self.intersect(ray, intersections) and the sort
TaskIntersect(i) ==
    /\ tasks[i].pc = "start"
    /\ ledgers' = [ledgers EXCEPT ![ledger_of(i)] =
                       color_at_intersections(ledgers[ledger_of(i)], par_render_ray(i).hits)]
    /\ tasks' = [tasks EXCEPT ![i].pc = "sorted"]
    /\ UNCHANGED <<camera, pixels, coreVars, idVars, compositeVars, traverseVars, boxVars,
                   lightingVars, queryVars>>

\* color_at of task i: the hit is read from the ledger; without one the color
\* is black
TaskHit(i) ==
    /\ tasks[i].pc = "sorted"
    /\ LET hit == Intersections_hit(ledgers[ledger_of(i)])
       IN tasks' = [tasks EXCEPT ![i] =
                       IF hit # <<>> THEN [pc |-> "hit", hit |-> hit, color |-> Black]
                       ELSE [pc |-> "shaded", hit |-> hit, color |-> Black]]
    /\ UNCHANGED <<camera, ledgers, pixels, coreVars, idVars, compositeVars, traverseVars,
                   boxVars, lightingVars, queryVars>>

\* shade_hit of task i: is_shadowed works on the ledger of the task, then the
\* surface is lit
TaskShade(i) ==
    /\ tasks[i].pc = "hit"
    /\ LET r == par_render_ray(i)
           shadow == World_is_shadowed(ledgers[ledger_of(i)], r.shadow_hits, r.distance)
       IN /\ ledgers' = [ledgers EXCEPT ![ledger_of(i)] = shadow.intersections]
          /\ tasks' = [tasks EXCEPT ![i].pc = "shaded",
                                    ![i].color = Shape_lighting(shadow.shadowed, One, One)]
    /\ UNCHANGED <<camera, pixels, coreVars, idVars, compositeVars, traverseVars, boxVars,
                   lightingVars, queryVars>>

\* collect: the color task i returned becomes pixel i
TaskCollect(i) ==
    /\ tasks[i].pc = "shaded"
    /\ pixels' = [pixels EXCEPT ![i] = <<tasks[i].color>>]
    /\ tasks' = [tasks EXCEPT ![i].pc = "done"]
    /\ UNCHANGED <<camera, ledgers, coreVars, idVars, compositeVars, traverseVars, boxVars,
                   lightingVars, queryVars>>

\* the workers take the steps of the tasks in any order
RenderNext ==
    \E i \in Pixels :
        \/ TaskIntersect(i)
        \/ TaskHit(i)
        \/ TaskShade(i)
        \/ TaskCollect(i)

SpecRender == RenderInit /\ [][RenderNext]_vars

\* ------------------------------------------------------ Shape::lighting

\* the values of light.dot(normal) and of reflect.dot(eye): cosines from -1 to 1
DotValues == {-One, -71, -50, 0, 25, 50, 71, One}

\* no call of Shape::lighting has been made
LightingInit ==
    /\ CoreIdle
    /\ BuildIdle

\* shape.lighting(light, point, eye, normal, shadowed), with the geometry of
\* light, point, eye and normal given by the two dot products
Lighting ==
    /\ \E shadowed \in BOOLEAN, light_dot_normal \in DotValues, reflect_dot_eye \in DotValues :
         /\ lighting_args' = <<[shadowed |-> shadowed, light_dot_normal |-> light_dot_normal,
                                reflect_dot_eye |-> reflect_dot_eye]>>
         /\ lighting_result' =
                <<Shape_lighting(shadowed, light_dot_normal, reflect_dot_eye)>>
    /\ UNCHANGED <<coreVars, idVars, compositeVars, traverseVars, boxVars, renderVars, queryVars>>

LightingNext == Lighting

SpecLighting == LightingInit /\ [][LightingNext]_vars

\* ------------------------------------------------------ Geometry::normal

\* In this section coordinates, u and v are hundredths (One is 1.0).

\* crate::config::EPSILON: less than one hundredth
EPSILON == 0

\* Vector::vector
Vector_vector(x, y, z) == <<x, y, z, 0>>

\* Geometry::SmoothTriangle {p1, p2, p3, n1, n2, n3}
Geometry_SmoothTriangle(p1, p2, p3, n1_, n2_, n3_) ==
    [n1 |-> n1_, n2 |-> n2_, n3 |-> n3_] @@ Geometry("SmoothTriangle", 0, 0, FALSE, p1, p2, p3)

\* Geometry::Triangle {p1, p2, p3, n}: n is what Shape::triangle computed
Geometry_TriangleWithNormal(p1, p2, p3, n) ==
    [n |-> n] @@ Geometry("Triangle", 0, 0, FALSE, p1, p2, p3)

\* a call that returned a value, and a call that panicked
Returned(value) == [panicked |-> FALSE, value |-> <<value>>]

Panicked == [panicked |-> TRUE, value |-> <<>>]

\* Vector * f64 and Vector + Vector
Vector_scale(a, k) == <<Mul(a[1], k), Mul(a[2], k), Mul(a[3], k), Mul(a[4], k)>>

Vector_add(a, b) == <<a[1] + b[1], a[2] + b[2], a[3] + b[3], a[4] + b[4]>>

\* f64::sqrt of a number that is not negative
f64_sqrt(x) == CHOOSE r \in 0 .. x + One : r * r <= x * One /\ (r + 1) * (r + 1) > x * One

\* Geometry::normal_cube
normal_cube(point) ==
    LET x_abs == FAbs(point[1])
        y_abs == FAbs(point[2])
        z_abs == FAbs(point[3])
        max == FMax(FMax(x_abs, y_abs), z_abs)
    IN  IF max = x_abs THEN Vector_vector(point[1], 0, 0)
        ELSE IF max = y_abs THEN Vector_vector(0, point[2], 0)
        ELSE Vector_vector(0, 0, point[3])

\* Geometry::normal_cylinder
normal_cylinder(point, min, max) ==
    LET distance == Powi(point[1], 2) + Powi(point[3], 2)
    IN  IF distance < One /\ point[2] >= max - EPSILON THEN Vector_vector(0, One, 0)
        ELSE IF distance < One /\ point[2] <= min + EPSILON THEN Vector_vector(0, -One, 0)
        ELSE Vector_vector(point[1], 0, point[3])

\* Geometry::normal_cone
normal_cone(point, min, max) ==
    LET distance == Powi(point[1], 2) + Powi(point[3], 2)
    IN  IF distance < One /\ point[2] >= max - EPSILON THEN Vector_vector(0, One, 0)
        ELSE IF distance < One /\ point[2] <= min + EPSILON THEN Vector_vector(0, -One, 0)
        ELSE LET y == f64_sqrt(distance)
             IN  Vector_vector(point[1], IF point[2] > 0 THEN -y ELSE y, point[3])

\* the normal of a smooth triangle with unwrap_or(0.0) in place of unwrap
Geometry_normal_UnwrapOrZero(g, point, u, v) ==
    CASE g.kind = "Sphere" -> Returned(Vector_vector(point[1], point[2], point[3]))
      [] g.kind = "Plane" -> Returned(Vector_vector(0, One, 0))
      [] g.kind = "Cube" -> Returned(normal_cube(point))
      [] g.kind = "Cylinder" -> Returned(normal_cylinder(point, g.min, g.max))
      [] g.kind = "Cone" -> Returned(normal_cone(point, g.min, g.max))
      [] g.kind = "Triangle" -> Returned(g.n)
      [] g.kind = "SmoothTriangle" ->
            LET u_ == IF u = <<>> THEN 0 ELSE u[1]
                v_ == IF v = <<>> THEN 0 ELSE v[1]
            IN  Returned(Vector_add(Vector_add(Vector_scale(g.n2, u_), Vector_scale(g.n3, v_)),
                                    Vector_scale(g.n1, One - u_ - v_)))

\* Geometry::normal: Option::unwrap panics on None
Geometry_normal(g, point, u, v) ==
    CASE g.kind = "Sphere" -> Returned(Vector_vector(point[1], point[2], point[3]))
      [] g.kind = "Plane" -> Returned(Vector_vector(0, One, 0))
      [] g.kind = "Cube" -> Returned(normal_cube(point))
      [] g.kind = "Cylinder" -> Returned(normal_cylinder(point, g.min, g.max))
      [] g.kind = "Cone" -> Returned(normal_cone(point, g.min, g.max))
      [] g.kind = "Triangle" -> Returned(g.n)
      [] g.kind = "SmoothTriangle" ->
            IF u = <<>> THEN Panicked
            ELSE IF v = <<>> THEN Panicked
            ELSE Returned(Vector_add(Vector_add(Vector_scale(g.n2, u[1]),
                                                Vector_scale(g.n3, v[1])),
                                     Vector_scale(g.n1, One - u[1] - v[1])))

\* the triangle of tests::smooth_triangle_normal, and the same corners flat
SmoothTriangleExample ==
    Geometry_SmoothTriangle(<<0, One, 0, 1>>, <<-One, 0, 0, 1>>, <<One, 0, 0, 1>>,
                            Vector_vector(0, One, 0), Vector_vector(-One, 0, 0),
                            Vector_vector(One, 0, 0))

TriangleExample ==
    Geometry_TriangleWithNormal(<<0, One, 0, 1>>, <<-One, 0, 0, 1>>, <<One, 0, 0, 1>>,
                                Vector_vector(0, 0, -One))

NormalGeometries ==
    {Geometry_Sphere, Geometry_Plane, Geometry_Cube, Geometry_Cylinder(One, 2 * One, TRUE),
     Geometry_Cone(-One, One, TRUE), TriangleExample, SmoothTriangleExample}

NormalPoints ==
    {<<One, 0, 0, 1>>, <<0, 2 * One, 0, 1>>, <<0, 0, -One, 1>>, <<50, One, 50, 1>>, <<0, 0, 0, 1>>}

\* the u and v of an Intersection: None, or Some value
UVOptions == {<<>>, <<25>>, <<45>>}

\* no function of a geometry has been called
NormalInit ==
    /\ CoreIdle
    /\ BuildIdle

\* a caller asks a geometry for its normal at a point
Normal ==
    /\ \E g \in NormalGeometries, point \in NormalPoints, u \in UVOptions, v \in UVOptions :
         /\ query' = <<[fn |-> "normal", geometry |-> g, point |-> point, u |-> u, v |-> v]>>
         /\ answer' = <<Geometry_normal(g, point, u, v)>>
    /\ UNCHANGED <<coreVars, idVars, compositeVars, traverseVars, boxVars, renderVars, lightingVars>>

NormalNext == Normal

SpecNormal == NormalInit /\ [][NormalNext]_vars

\* ------------------------------------- Geometry::intersect on a cylinder, cone

\* In this section coordinates and t are hundredths (One is 1.0).

\* f64::approx: EPSILON is positive and below one hundredth
f64_approx(a, b) == FAbs(a - b) < EPSILON + 1

\* a / b in hundredths, for b of either sign
Quot(a, b) == IF b < 0 THEN ((-a) * One) \div (-b) ELSE (a * One) \div b

\* Intersection {t, shape, u, v}; part names the statement that inserted the
\* record: "lateral", "cap" or "triangle"
Intersection_uv(t, shape, u, v, part) ==
    [t |-> t, shape |-> shape, u |-> u, v |-> v, part |-> part]

\* Geometry::intersects_cap
intersects_cap(ray, t, radius) ==
    LET x == ray.origin[1] + Mul(t, ray.direction[1])
        z == ray.origin[3] + Mul(t, ray.direction[3])
    IN  Powi(x, 2) + Powi(z, 2) <= Powi(radius, 2)

\* Geometry::intersect_cap: the records it inserts, in order
intersect_cap(shape, ray, min, max, min_radius, max_radius, closed) ==
    IF ~closed \/ f64_approx(ray.direction[2], 0) THEN <<>>
    ELSE LET t_min == Quot(min - ray.origin[2], ray.direction[2])
             t_max == Quot(max - ray.origin[2], ray.direction[2])
         IN  (IF intersects_cap(ray, t_min, min_radius)
              THEN <<Intersection_uv(t_min, shape, <<>>, <<>>, "cap")>> ELSE <<>>)
             \o (IF intersects_cap(ray, t_max, max_radius)
                 THEN <<Intersection_uv(t_max, shape, <<>>, <<>>, "cap")>> ELSE <<>>)

\* the two roots of the quadratic, each kept when min < y < max
truncated_roots(shape, ray, min, max, a, b, c) ==
    LET discriminant == Powi(b, 2) - 4 * Mul(a, c)
    IN  IF discriminant >= 0
        THEN LET t0 == Quot(-b - f64_sqrt(discriminant), 2 * a)
                 y0 == ray.origin[2] + Mul(t0, ray.direction[2])
                 t1 == Quot(-b + f64_sqrt(discriminant), 2 * a)
                 y1 == ray.origin[2] + Mul(t1, ray.direction[2])
             IN  (IF min < y0 /\ y0 < max
                  THEN <<Intersection_uv(t0, shape, <<>>, <<>>, "lateral")>> ELSE <<>>)
                 \o (IF min < y1 /\ y1 < max
                     THEN <<Intersection_uv(t1, shape, <<>>, <<>>, "lateral")>> ELSE <<>>)
        ELSE <<>>

\* Geometry::intersect_cylinder
intersect_cylinder(shape, ray, min, max, closed) ==
    LET o == ray.origin
        d == ray.direction
        a == Powi(d[1], 2) + Powi(d[3], 2)
        b == 2 * Mul(o[1], d[1]) + 2 * Mul(o[3], d[3])
        c == Powi(o[1], 2) + Powi(o[3], 2) - One
    IN  (IF ~f64_approx(a, 0) THEN truncated_roots(shape, ray, min, max, a, b, c) ELSE <<>>)
        \o intersect_cap(shape, ray, min, max, One, One, closed)

\* Geometry::intersect_cone
intersect_cone(shape, ray, min, max, closed) ==
    LET o == ray.origin
        d == ray.direction
        a == Powi(d[1], 2) - Powi(d[2], 2) + Powi(d[3], 2)
        b == 2 * Mul(o[1], d[1]) - 2 * Mul(o[2], d[2]) + 2 * Mul(o[3], d[3])
        c == Powi(o[1], 2) - Powi(o[2], 2) + Powi(o[3], 2)
    IN  (IF ~f64_approx(a, 0) \/ ~f64_approx(b, 0)
         THEN IF ~f64_approx(a, 0)
              THEN truncated_roots(shape, ray, min, max, a, b, c)
              ELSE <<Intersection_uv(Quot(-c, 2 * b), shape, <<>>, <<>>, "lateral")>>
         ELSE <<>>)
        \o intersect_cap(shape, ray, min, max, min, max, closed)

\* bounded cylinders and cones, open and closed
QuadricGeometries ==
    {Geometry_Cylinder(One, 2 * One, closed) : closed \in BOOLEAN}
    \cup {Geometry_Cone(-50, 50, closed) : closed \in BOOLEAN}
    \cup {Geometry_Cone(-One, 0, closed) : closed \in BOOLEAN}

\* rays in object space, among them rays parallel to a half of the cone
QuadricRays ==
    {Ray(o, d) : o \in {<<0, 0, -300, 1>>, <<0, 150, -200, 1>>, <<50, 0, -500, 1>>,
                        <<0, 300, 0, 1>>, <<0, 0, -25, 1>>},
                 d \in {<<0, 0, One, 0>>, <<0, One, One, 0>>, <<0, One, 0, 0>>,
                        <<0, -One, 2 * One, 0>>, <<0, -One, One, 0>>}}

\* Geometry::intersect of a cylinder or a cone, on an empty ledger
Quadric_intersect(g, shape, ray) ==
    IF g.kind = "Cylinder" THEN intersect_cylinder(shape, ray, g.min, g.max, g.closed)
    ELSE intersect_cone(shape, ray, g.min, g.max, g.closed)

\* a ray in object space meets a cylinder or a cone
IntersectQuadric ==
    /\ \E g \in QuadricGeometries, ray \in QuadricRays :
         /\ query' = <<[fn |-> "intersect", geometry |-> g, ray |-> ray]>>
         /\ answer' = <<Quadric_intersect(g, 0, ray)>>
    /\ UNCHANGED <<coreVars, idVars, compositeVars, traverseVars, boxVars, renderVars, lightingVars>>

QuadricNext == IntersectQuadric

SpecQuadric == NormalInit /\ [][QuadricNext]_vars

\* --------------------------------------------------- BoundingBox::union

\* boxes with corners of integers, and the empty box
UnionBoxes ==
    {BoundingBox_new(Vector_point(a, b, 0), Vector_point(c, d, 1)) :
        a \in {-1, 0}, b \in {-1, 0}, c \in {1, 2}, d \in {1, 2}}
    \cup {BoundingBox_empty}

\* a caller takes the union of two boxes
Union ==
    /\ \E a \in UnionBoxes, b \in UnionBoxes :
         /\ query' = <<[fn |-> "union", self_ |-> a, other |-> b]>>
         /\ answer' = <<BoundingBox_union(a, b)>>
    /\ UNCHANGED <<coreVars, idVars, compositeVars, traverseVars, boxVars, renderVars, lightingVars>>

UnionNext == Union

SpecUnion == NormalInit /\ [][UnionNext]_vars

\* ------------------------------------- Geometry::intersect, with u and v

\* In this section coordinates, t, u and v are hundredths (One is 1.0), except
\* the rays of spheres, planes and cubes, which are rays of integers.

\* Vector - Vector, Vector::cross and Vector::dot on hundredths
Vector_sub(a, b) == <<a[1] - b[1], a[2] - b[2], a[3] - b[3], a[4] - b[4]>>

Vector_cross(a, b) ==
    Vector_vector(Mul(a[2], b[3]) - Mul(a[3], b[2]),
                  Mul(a[3], b[1]) - Mul(a[1], b[3]),
                  Mul(a[1], b[2]) - Mul(a[2], b[1]))

Vector_dot_hundredths(a, b) == Mul(a[1], b[1]) + Mul(a[2], b[2]) + Mul(a[3], b[3])

\* an intersect_triangle that inserts its record with u: None, v: None
intersect_triangle_NoUV(shape, ray, p1, e1, e2) ==
    LET dir_cross_e2 == Vector_cross(ray.direction, e2)
        determinant == Vector_dot_hundredths(e1, dir_cross_e2)
    IN  IF FAbs(determinant) < EPSILON + 1 THEN <<>>
        ELSE LET f == Quot(One, determinant)
                 p1_to_origin == Vector_sub(ray.origin, p1)
                 u == Mul(f, Vector_dot_hundredths(p1_to_origin, dir_cross_e2))
                 origin_cross_e1 == Vector_cross(p1_to_origin, e1)
                 v == Mul(f, Vector_dot_hundredths(ray.direction, origin_cross_e1))
             IN  IF u < 0 \/ u > One THEN <<>>
                 ELSE IF v < 0 \/ u + v > One THEN <<>>
                 ELSE <<Intersection_uv(Mul(f, Vector_dot_hundredths(e2, origin_cross_e1)),
                                        shape, <<>>, <<>>, "triangle")>>

\* Geometry::intersect_triangle: the record it inserts, if any
intersect_triangle(shape, ray, p1, e1, e2) ==
    LET dir_cross_e2 == Vector_cross(ray.direction, e2)
        determinant == Vector_dot_hundredths(e1, dir_cross_e2)
    IN  IF FAbs(determinant) < EPSILON + 1 THEN <<>>
        ELSE LET f == Quot(One, determinant)
                 p1_to_origin == Vector_sub(ray.origin, p1)
                 u == Mul(f, Vector_dot_hundredths(p1_to_origin, dir_cross_e2))
                 origin_cross_e1 == Vector_cross(p1_to_origin, e1)
                 v == Mul(f, Vector_dot_hundredths(ray.direction, origin_cross_e1))
             IN  IF u < 0 \/ u > One THEN <<>>
                 ELSE IF v < 0 \/ u + v > One THEN <<>>
                 ELSE <<Intersection_uv(Mul(f, Vector_dot_hundredths(e2, origin_cross_e1)),
                                        shape, <<u>>, <<v>>, "triangle")>>

\* Geometry::intersect: the records it inserts, in order; intersect_sphere,
\* intersect_plane and intersect_cube insert every t with u: None, v: None
Geometry_intersect_uv(g, shape, ray) ==
    CASE g.kind \in {"Sphere", "Plane", "Cube"} ->
            LET ts == Geometry_intersect(g, ray)
            IN  [i \in 1 .. Len(ts) |-> Intersection_uv(ts[i] * One, shape, <<>>, <<>>, "surface")]
      [] g.kind \in {"Cylinder", "Cone"} -> Quadric_intersect(g, shape, ray)
      [] g.kind \in {"Triangle", "SmoothTriangle"} ->
            intersect_triangle(shape, ray, g.p1, Vector_sub(g.p2, g.p1), Vector_sub(g.p3, g.p1))

\* Ray::position in hundredths, for the record of t on the ray
Record_position(g, ray, t) ==
    IF g.kind \in {"Sphere", "Plane", "Cube"}
    THEN [i \in 1 .. 4 |-> ray.origin[i] * One + ray.direction[i] * t]
    ELSE [i \in 1 .. 4 |-> ray.origin[i] + Mul(ray.direction[i], t)]

\* rays toward the triangle of the tests: through it, past it, along it
TriangleRays ==
    {Ray(o, d) : o \in {<<-20, 30, -200, 1>>, <<0, 50, -200, 1>>, <<-150, 0, -200, 1>>,
                        <<0, 150, -200, 1>>, <<0, 50, 200, 1>>},
                 d \in {<<0, 0, One, 0>>, <<0, One, 0, 0>>, <<0, 0, -One, 0>>}}

\* the rays a geometry is met with
RaysOf(g) ==
    CASE g.kind \in {"Sphere", "Plane", "Cube"} -> PruneRays
      [] g.kind \in {"Cylinder", "Cone"} -> QuadricRays
      [] g.kind \in {"Triangle", "SmoothTriangle"} -> TriangleRays

\* Shape::intersect of a shape of identity transform, Intersections::sort, and
\* prepare_state's call of normal on each record of the ledger
IntersectGeometry ==
    /\ \E g \in NormalGeometries \cup QuadricGeometries :
         \E ray \in RaysOf(g) :
            LET ledger == SortByT(Geometry_intersect_uv(g, 0, ray))
            IN  /\ query' = <<[fn |-> "prepare_state", geometry |-> g, ray |-> ray]>>
                /\ answer' =
                     <<[intersections |-> ledger,
                        normal |-> [i \in 1 .. Len(ledger) |->
                                      Geometry_normal(g, Record_position(g, ray, ledger[i].t),
                                                      ledger[i].u, ledger[i].v)]]>>
    /\ UNCHANGED <<coreVars, idVars, compositeVars, traverseVars, boxVars, renderVars, lightingVars>>

IntersectNext == IntersectGeometry

SpecIntersect == NormalInit /\ [][IntersectNext]_vars

\* ------------------------------------------------------------- claims

IsSortedByT(s) == \A i \in 1 .. Len(s) - 1 : s[i].t <= s[i + 1].t

\* the rows of tests::allowed_intersection that expect true, as
\* <<kind, left_hit, in_left, in_right>>, and every row of Aggregation
AllowedRows ==
    {<<"Union", TRUE, TRUE, FALSE>>, <<"Union", TRUE, FALSE, FALSE>>,
     <<"Union", FALSE, FALSE, TRUE>>, <<"Union", FALSE, FALSE, FALSE>>,
     <<"Intersection", TRUE, TRUE, TRUE>>, <<"Intersection", TRUE, FALSE, TRUE>>,
     <<"Intersection", FALSE, TRUE, TRUE>>, <<"Intersection", FALSE, TRUE, FALSE>>,
     <<"Difference", TRUE, TRUE, FALSE>>, <<"Difference", TRUE, FALSE, FALSE>>,
     <<"Difference", FALSE, TRUE, TRUE>>, <<"Difference", FALSE, TRUE, FALSE>>}
    \cup {<<"Aggregation", lh, il, ir>> : lh \in BOOLEAN, il \in BOOLEAN, ir \in BOOLEAN}

RECURSIVE Leaves(_)
\* the ids of the primitive shapes in the subtree of an element
Leaves(element) ==
    IF element.type = "Primitive"
    THEN {element.shape}
    ELSE UNION {Leaves(element.children[i]) : i \in 1 .. Len(element.children)}

\* a step of the loop of filter_by_group on a record of the group
FilterNextOnMember ==
    /\ cursor >= 1
    /\ cursor' = cursor + 1
    /\ intersections[cursor].shape \in Leaves(group)

\* the i-th record belongs to the left child
LeftHitAt(i) == intersections[i].shape \in Leaves(group.children[1])

\* C1: whenever filter_by_group asks allows_intersection about a record, the
\* record is kept exactly when <<kind, left_hit, in_left, in_right>> is a row of
\* the truth table that says true (Aggregation: always).
C1_AllowsIntersectionTable ==
    [][FilterNextOnMember =>
        ((result' = Append(result, intersections[cursor]))
            <=> (<<group.kind, LeftHitAt(cursor), in_left, in_right>> \in AllowedRows))
      ]_vars

\* C1 witness: a Difference group has answered for left_hit with in_left and
\* in_right both true (the third record, dropped)
C1_Witness ==
    /\ op = "filter_next"
    /\ group.kind = "Difference"
    /\ cursor = 4
    /\ ~in_left /\ in_right
    /\ Len(result) = 2
    /\ LeftHitAt(3)

\* whether the ray is inside the left (right) child after the first k records:
\* the child's records so far are odd in number
InLeftAfter(k) == Cardinality({i \in 1 .. k : LeftHitAt(i)}) % 2 = 1
InRightAfter(k) == Cardinality({i \in 1 .. k : ~LeftHitAt(i)}) % 2 = 1

\* the inside-indicator of the compound solid
InsideCompound(kind, l, r) ==
    CASE kind = "Union" -> l \/ r
      [] kind = "Intersection" -> l /\ r
      [] kind = "Difference" -> l /\ ~r

InsideAfter(k) == InsideCompound(group.kind, InLeftAfter(k), InRightAfter(k))

RECURSIVE CrossingsUpTo(_)
\* the records among the first k at which the inside-indicator changes
CrossingsUpTo(k) ==
    IF k = 0 THEN <<>>
    ELSE IF InsideAfter(k - 1) # InsideAfter(k)
         THEN Append(CrossingsUpTo(k - 1), intersections[k])
         ELSE CrossingsUpTo(k - 1)

\* C2: for a Union, Intersection or Difference group and a sorted ledger of
\* records of its two children, the records filter_by_group has kept after any
\* number of records are exactly those at which the inside-indicator of the
\* compound solid changes, and the number kept is odd exactly when the ray is
\* inside the compound (the kept records alternate entering and leaving).
C2_FilterKeepsBoundaryCrossings ==
    ( /\ cursor >= 1
      /\ group.kind # "Aggregation"
      /\ IsSortedByT(intersections)
      /\ \A i \in 1 .. Len(intersections) : intersections[i].shape \in Leaves(group) )
    => ( /\ result = CrossingsUpTo(cursor - 1)
         /\ InsideAfter(cursor - 1) <=> (Len(result) % 2 = 1) )

\* C2 witness: a Difference whose left child is a nested group has filtered a
\* sorted ledger of three records and kept two
C2_Witness ==
    /\ cursor = Len(intersections) + 1
    /\ Len(intersections) = 3
    /\ IsSortedByT(intersections)
    /\ \A i \in 1 .. 3 : intersections[i].shape \in Leaves(group)
    /\ group.kind = "Difference"
    /\ group.children[1].type = "Composite"
    /\ intersections[2].shape = 2
    /\ Len(result) = 2

CsgExampleKept(kind) ==
    CASE kind = "Union" -> <<CsgExampleLedger[1], CsgExampleLedger[4]>>
      [] kind = "Intersection" -> <<CsgExampleLedger[2], CsgExampleLedger[3]>>
      [] kind = "Difference" -> <<CsgExampleLedger[1], CsgExampleLedger[2]>>

\* C3: filter_by_group starts with in_left and in_right false, after every
\* record of the group it toggles the flag of the child that owns the record and
\* leaves the other, kept or not, having decided on the flags as they were; on
\* the ledger (sphere 1, cube 2, sphere 3, cube 4) with the sphere left, Union
\* keeps records 0 and 3, Intersection 1 and 2, Difference 0 and 1, in order.
C3_TogglesAfterEveryRecord ==
    [][ /\ (cursor = 0 /\ cursor' = 1) => (~in_left' /\ ~in_right')
        /\ FilterNextOnMember =>
              /\ in_left' = (IF LeftHitAt(cursor) THEN ~in_left ELSE in_left)
              /\ in_right' = (IF LeftHitAt(cursor) THEN in_right ELSE ~in_right)
              /\ (result' # result) <=>
                    allows_intersection(group.kind, LeftHitAt(cursor), in_left, in_right)
        /\ ( /\ intersections' = CsgExampleLedger
             /\ cursor' = 5
             /\ group'.kind # "Aggregation"
             /\ group' = Composite(group'.kind, <<Primitive(0), Primitive(1)>>) )
           => result' = CsgExampleKept(group'.kind)
      ]_vars

\* C3 witness: the Union of sphere and cube has filtered the example ledger
C3_Witness ==
    /\ intersections = CsgExampleLedger
    /\ cursor = 5
    /\ group = Composite("Union", <<Primitive(0), Primitive(1)>>)
    /\ result = <<Intersection(1, 0), Intersection(4, 1)>>

\* C5: hit returns the first record in ledger order with t >= 0 (t = 0 counts),
\* None when there is none, and on a sorted ledger no record with t >= 0 has a
\* smaller t than the one returned.
C5_HitFirstNonNegative ==
    op = "hit" =>
        /\ (found = <<>>) <=> (\A i \in 1 .. Len(intersections) : intersections[i].t < 0)
        /\ found # <<>> =>
              \E i \in 1 .. Len(intersections) :
                 /\ found[1] = intersections[i]
                 /\ intersections[i].t >= 0
                 /\ \A j \in 1 .. i - 1 : intersections[j].t < 0
        /\ (found # <<>> /\ IsSortedByT(intersections)) =>
              \A i \in 1 .. Len(intersections) :
                 intersections[i].t >= 0 => found[1].t <= intersections[i].t

\* C5 witness: hit has returned a record with t = 0 that a negative t precedes
\* and a larger t follows, on a sorted ledger
C5_Witness ==
    /\ op = "hit"
    /\ found # <<>>
    /\ found[1].t = 0
    /\ Len(intersections) = 3
    /\ IsSortedByT(intersections)
    /\ intersections[1].t < 0
    /\ intersections[3].t > 0

\* the shapes the ray has entered and not left after the first k records
EnteredAfter(k) ==
    {s \in ShapeIds :
        Cardinality({i \in 1 .. k : intersections[i].shape = s}) % 2 = 1}

\* the last of the first k records that is of shape s
LastRecordOf(s, k) ==
    CHOOSE i \in 1 .. k :
        /\ intersections[i].shape = s
        /\ \A j \in i + 1 .. k : intersections[j].shape # s

\* the refractive index of the most recently entered and not yet left shape
\* after the first k records, 1.0 when there is none
IndexAfter(k) ==
    IF EnteredAfter(k) = {} THEN VACUUM
    ELSE material[CHOOSE s \in EnteredAfter(k) :
                    \A r \in EnteredAfter(k) : LastRecordOf(r, k) <= LastRecordOf(s, k)
                 ].refractive_index

\* self is one of the records of the ledger
SelfInLedger ==
    \E i \in 1 .. Len(intersections) : Intersection_eq(intersections[i], self[1])

\* the place of the hit in the ledger: the first record equal to it, which is
\* the one Intersections::hit returns
HitPosition ==
    CHOOSE i \in 1 .. Len(intersections) :
        /\ Intersection_eq(intersections[i], self[1])
        /\ \A j \in 1 .. i - 1 : ~Intersection_eq(intersections[j], self[1])

\* the (n1, n2) tests::finding_n1_and_n2_at_intersections expects at the six hits
RefractionExamplePairs ==
    <<<<100, 150>>, <<150, 200>>, <<200, 250>>, <<250, 250>>, <<250, 150>>, <<150, 100>>>>

PrepareDone == walk = Len(intersections) + 1

\* C4: prepare_state on a hit of a sorted ledger ends with n1 the refractive
\* index of the most recently entered and not yet left shape just before the
\* hit's record and n2 that index just after it (1.0 when no shape is entered);
\* the six hits of the three glass spheres give the documented pairs.
C4_N1N2AroundTheHit ==
    (PrepareDone /\ SelfInLedger /\ self[1].t >= 0) =>
        /\ n1 = IndexAfter(HitPosition - 1)
        /\ n2 = IndexAfter(HitPosition)
        /\ intersections = RefractionExampleLedger =>
              <<n1, n2>> = RefractionExamplePairs[HitPosition]

\* the innermost activation after the step
TopAfter == stack'[Len(stack')]

\* the activation that was innermost before a step that neither calls nor returns
SameAfter == stack'[Len(stack)]

\* C6: reflected_color and refracted_color called with fuel = 0 return black
\* for every state and material, call color_at no further and leave the
\* ledger as it is.
C6_NoFuelReturnsBlack ==
    [][(stack # <<>> /\ Top.fuel = 0) =>
          /\ Top.pc = "reflected_color" =>
                /\ Len(stack') = Len(stack)
                /\ SameAfter.pc = "refracted_color"
                /\ SameAfter.reflected_color = Black
                /\ intersections' = intersections
          /\ Top.pc = "refracted_color" =>
                /\ Len(stack') = Len(stack)
                /\ SameAfter.pc = "combine"
                /\ SameAfter.refracted_color = Black
                /\ intersections' = intersections]_vars

\* both have returned with fuel = 0 on a shape that reflects and refracts, for a
\* ray that total internal reflection does not stop
C6_Witness ==
    /\ stack # <<>>
    /\ Top.pc = "combine"
    /\ Top.fuel = 0
    /\ material[Top.state[1].shape].reflective > 0
    /\ material[Top.state[1].shape].transparency > 0
    /\ ~(Mul(Powi(Div(Top.state[1].n1, Top.state[1].n2), 2),
             One - Powi(Top.state[1].cos_i, 2)) > One)

\* the fuel of the activations falls by one from each to the next, and only
\* an activation with fuel left has called
FuelFallsByOne ==
    \A i \in 2 .. Len(stack) :
        /\ stack[i].fuel = stack[i - 1].fuel - 1
        /\ stack[i - 1].fuel > 0

\* a step that calls color_at: from reflected_color or refracted_color, with
\* fuel left and a coefficient that is not 0, handing on fuel - 1
CallsWithFuelLeft ==
    Len(stack') > Len(stack) =>
        /\ Len(stack') = Len(stack) + 1
        /\ Top.fuel > 0
        /\ Top.pc \in {"reflected_color", "refracted_color"}
        /\ Top.pc = "reflected_color" => material[Top.state[1].shape].reflective # 0
        /\ Top.pc = "refracted_color" => material[Top.state[1].shape].transparency # 0
        /\ TopAfter.pc = "color_at"
        /\ TopAfter.fuel = Top.fuel - 1

\* C7: color_at terminates for every scene and fuel, mirrors facing each other
\* included: every call of color_at from reflected_color or refracted_color
\* gets fuel - 1, none is made with fuel <= 0 or a coefficient of 0, and under
\* a call with fuel = n >= 0 at most n + 1 calls of color_at are nested.
C7_ColorAtTerminates ==
    /\ [](FuelFallsByOne
          /\ (stack # <<>> /\ stack[1].fuel >= 0 => Len(stack) <= stack[1].fuel + 1)
          /\ (stack # <<>> /\ stack[1].fuel < 0 => Len(stack) = 1))
    /\ [][CallsWithFuelLeft]_vars
    /\ <>(stack = <<>> /\ pixel # <<>>)

\* the calls are nested as deep as the fuel allows, every one on the mirror
C7_Witness ==
    /\ Len(stack) > 1
    /\ Len(stack) = stack[1].fuel + 1
    /\ material[0] = Material(One, 0, VACUUM)
    /\ \A i \in 1 .. Len(stack) - 1 : stack[i].pc = "reflected_color_call"

\* record i of s is the nearest that is not behind the origin, the first of
\* the ledger among equals
NearestNonNegative(s, i) ==
    /\ s[i].t >= 0
    /\ \A j \in 1 .. Len(s) :
          s[j].t >= 0 => s[i].t < s[j].t \/ (s[i].t = s[j].t /\ i <= j)

\* is_shadowed has returned to shade_hit and left its ledger
IsShadowedReturned == stack # <<>> /\ Top.pc = "reflected_color"

\* C8: is_shadowed is true exactly when the sorted ledger of the ray toward the
\* light has a nearest non-negative hit, its t is strictly less than the
\* distance to the light and its shape casts a shadow; it is false when no hit
\* is non-negative.
C8_ShadowedByNearestHit ==
    IsShadowedReturned =>
        /\ IsSortedByT(intersections)
        /\ Top.shadowed <=>
              \E i \in 1 .. Len(intersections) :
                  /\ NearestNonNegative(intersections, i)
                  /\ intersections[i].t < Top.distance
                  /\ casts_shadow[intersections[i].shape]
        /\ (\A i \in 1 .. Len(intersections) : intersections[i].t < 0) => ~Top.shadowed

\* shadowed by the nearest of several hits in front of the point
C8_Witness ==
    /\ IsShadowedReturned
    /\ Top.shadowed
    /\ \E i, j \in 1 .. Len(intersections) :
          /\ i < j
          /\ intersections[i].t >= 0
          /\ intersections[i].shape # intersections[j].shape
    /\ \E i \in 1 .. Len(intersections) : intersections[i].t < 0

\* C9: a point behind a shape that casts a shadow, the shape on the segment
\* from the point to the light, is shadowed whatever other shapes the world
\* holds; with only shapes on the segment whose casts_shadow is false it is
\* not shadowed.
C9_ShadowedBehindACaster ==
    IsShadowedReturned =>
        Top.shadowed <=>
            \E i \in 1 .. Len(intersections) :
                /\ intersections[i].t >= 0
                /\ intersections[i].t < Top.distance
                /\ casts_shadow[intersections[i].shape]

\* what the outermost color_at or the waiting caller has got is black
ReturnedBlack ==
    /\ Len(stack') = Len(stack) - 1
    /\ Len(stack) = 1 => pixel' = <<Black>>
    /\ Len(stack) > 1 =>
          /\ stack[Len(stack) - 1].pc = "reflected_color_call" =>
                TopAfter.pc = "refracted_color" /\ TopAfter.reflected_color = Black
          /\ stack[Len(stack) - 1].pc = "refracted_color_call" =>
                TopAfter.pc = "combine" /\ TopAfter.refracted_color = Black

\* C10: color_at returns black and never enters shade_hit when the ledger of
\* its ray has no record with t >= 0, be it empty or all behind the origin;
\* otherwise it shades the nearest non-negative hit.
C10_ColorAtShadesNearestHit ==
    [][(stack # <<>> /\ Top.pc = "color_at") =>
          IF \A i \in 1 .. Len(intersections') : intersections'[i].t < 0
          THEN ReturnedBlack
          ELSE /\ Len(stack') = Len(stack)
               /\ TopAfter.pc = "shade_hit"
               /\ \E i \in 1 .. Len(intersections') :
                     /\ NearestNonNegative(intersections', i)
                     /\ TopAfter.state[1].t = intersections'[i].t
                     /\ TopAfter.state[1].shape = intersections'[i].shape]_vars

\* the outermost color_at has returned black on a ledger of records that are
\* all behind the origin
C10_Witness ==
    /\ stack = <<>>
    /\ pixel = <<Black>>
    /\ lights > 0
    /\ intersections # <<>>
    /\ \A i \in 1 .. Len(intersections) : intersections[i].t < 0

\* C11: two Shapes are equal, and hash equal, exactly when their ids match:
\* the ids of next_id grow strictly in the order of construction, a clone is
\* equal to its original, and two Shapes constructed separately are never
\* equal, whatever their geometry.
C11_EqualIffSameConstruction ==
    \A i, j \in 1 .. Len(built) :
        /\ Shape_eq(built[i], built[j]) <=> built[i].id = built[j].id
        /\ Shape_eq(built[i], built[j]) <=> Shape_hash(built[i]) = Shape_hash(built[j])
        /\ built[i].serial < built[j].serial => built[i].id < built[j].id
        /\ built[i].serial = built[j].serial => Shape_eq(built[i], built[j])
        /\ built[i].serial # built[j].serial => ~Shape_eq(built[i], built[j])

C12_WitnessEmptyAggregation ==
    /\ ~panicked
    /\ composed = <<[kind |-> "Aggregation", children |-> 0]>>
    /\ scene # <<>>

\* C13: when the ray misses the bounding box of the group, Group::intersect
\* visits no child and leaves the caller's ledger as it was, whatever the kind of
\* the group; and inside a call, a nested group whose box the ray misses has none
\* of its shapes visited and adds no record
C13_BoxMissContributesNothing ==
    [][cast' # <<>> =>
        /\ ~BoundingBox_intersects(scene[1].bbox, cast'[1]) =>
              (intersections' = intersections /\ visited' = <<>>)
        /\ \A i \in 1 .. Len(scene[1].children) :
              LET child == scene[1].children[i]
              IN (child.type = "Composite"
                  /\ ~BoundingBox_intersects(child.bbox, cast'[1])) =>
                    /\ \A j \in 1 .. Len(visited') :
                          ~Element_includes(child, visited'[j])
                    /\ \A j \in Len(intersections) + 1 .. Len(intersections') :
                          ~Element_includes(child, intersections'[j].shape)]_vars

\* a Union that a cast misses after an earlier cast had left records in the ledger
C13_Witness ==
    /\ cast # <<>>
    /\ scene[1].kind = "Union"
    /\ ~BoundingBox_intersects(scene[1].bbox, cast[1])
    /\ intersections # <<>>
    /\ visited = <<>>

\* a nested Difference that the cast misses while its sibling is hit
C13_WitnessNested ==
    /\ cast # <<>>
    /\ Len(scene[1].children) = 2
    /\ scene[1].children[2].kind = "Difference"
    /\ ~BoundingBox_intersects(scene[1].children[2].bbox, cast[1])
    /\ visited = <<2, -1>>
    /\ intersections # <<>>

RECURSIVE EnclosesChildren(_)
\* the box of a group encloses what bbox() reports for each child, and so on
\* inside every child that is a group
EnclosesChildren(element) ==
    element.type = "Composite" =>
        \A i \in 1 .. Len(element.children) :
            /\ BoundingBox_encloses(element.bbox, Element_bbox(element.children[i]))
            /\ EnclosesChildren(element.children[i])

\* C14: after Element::composite has returned, the bounding box of the group
\* encloses the bounding box bbox() reports for every child, primitive or
\* group, at every depth and for every placement
C14_GroupBoxEnclosesChildren ==
    \A i \in 1 .. Len(scene) : EnclosesChildren(scene[i])

RECURSIVE Unpruned(_, _, _, _)
\* the records of a traversal that tests no bounding box
Unpruned(element, r, hits, records) ==
    IF element.type = "Primitive"
    THEN Shape_intersect(element, hits, [intersections |-> records, visited |-> <<>>]).intersections
    ELSE LET first == IF Len(element.children) >= 1
                      THEN Unpruned(element.children[1], r, hits,
                                    IF element.kind = "Aggregation" THEN records ELSE <<>>)
                      ELSE records
             both == IF Len(element.children) >= 2
                     THEN Unpruned(element.children[2], r, hits, first)
                     ELSE first
         IN IF element.kind = "Aggregation" THEN both
            ELSE records \o Intersections_filter_by_group(SortByT(both), element)

\* C15: pruning by bounding boxes is sound: the box of a shape contains the
\* point ray.position(t) of every record the shape's intersect has inserted,
\* and the traversal that tests the boxes returns the records of the traversal
\* that does not
C15_PruningIsSound ==
    cast # <<>> =>
        /\ \A i \in 1 .. Len(intersections) :
              \A p \in Element_primitives(scene[1]) :
                  p.shape = intersections[i].shape =>
                      BoundingBox_contains(p.bbox, Ray_position(cast[1], intersections[i].t))
        /\ intersections = Unpruned(scene[1], cast[1], SceneHits(scene[1], cast[1]), <<>>)

\* the box is the box of the points: on every axis min <= max, min is the
\* least and max the greatest coordinate, and every point is contained
IsBoxOf(box, points) ==
    /\ \A axis \in 1 .. 3 :
          /\ FLe(box.min[axis], box.max[axis])
          /\ \E i \in 1 .. Len(points) : box.min[axis] = points[i][axis]
          /\ \E i \in 1 .. Len(points) : box.max[axis] = points[i][axis]
          /\ \A i \in 1 .. Len(points) :
                FLe(box.min[axis], points[i][axis]) /\ FLe(points[i][axis], box.max[axis])
    /\ \A i \in 1 .. Len(points) : BoundingBox_contains(box, points[i])

\* C16: the empty box absorbs insertions: empty.insert(p) is the box [p, p];
\* after one or more insert calls from the empty box min <= max on every axis,
\* every inserted point is contained and min, max are the least and greatest
\* coordinates of the inserted points; and insert leaves its receiver as it was
C16_EmptyBoxAbsorbsInsertions ==
    /\ inserted = <<>> => bbox = BoundingBox_empty
    /\ inserted # <<>> => IsBoxOf(bbox, inserted)
    /\ out # <<>> => IsBoxOf(out[1].box, Append(inserted, out[1].point))
    /\ (out # <<>> /\ inserted = <<>>) =>
          out[1].box = BoundingBox_new(
              Vector_point(out[1].point[1], out[1].point[2], out[1].point[3]),
              Vector_point(out[1].point[1], out[1].point[2], out[1].point[3]))
    /\ out # <<>> => bbox = out[1].receiver

\* the ledger a task has left behind, from its own progress alone; the ray is
\* the one of pixel (i mod hsize, i div hsize)
OwnLedger(i) ==
    LET r == Camera_ray_at_pixel(camera, i % camera.hsize, i \div camera.hsize)
    IN IF tasks[i].pc = "start" THEN <<>>
       ELSE IF tasks[i].pc \in {"sorted", "hit"} \/ tasks[i].hit = <<>>
       THEN SortByT(World_intersect(<<>>, r.hits))
       ELSE SortByT(World_intersect(<<>>, r.shadow_hits))

\* C17: whatever the order in which the tasks of par_render take their steps,
\* pixel i of the image is the pixel i of the sequential render, the color_at
\* of the ray of (i mod hsize, i div hsize), and the ledger of a task holds
\* what that task alone has put there
C17_ParRenderIsRender ==
    \A i \in Pixels :
        /\ pixels[i] # <<>> => pixels[i][1] = Image_render(camera)[i + 1]
        /\ tasks[i].pc = "done" => pixels[i] # <<>>
        /\ ledgers[i] = OwnLedger(i)

\* every task is done and the image shows all three colors
C17_Witness ==
    /\ \A i \in Pixels : tasks[i].pc = "done"
    /\ {pixels[i][1] : i \in Pixels} =
          {Black, Shape_lighting(TRUE, One, One), Shape_lighting(FALSE, One, One)}

\* C19: shade_hit adds, for a light, the lighting of the surface unweighted and
\* the reflected and refracted colors: weighted as reflected * reflectance +
\* refracted * (1 - reflectance) exactly when the material of the hit has both
\* reflective > 0 and transparency > 0, and simply added in every other case
C19_ShadeHitCombination ==
    [][(stack # <<>> /\ Top.pc = "combine") =>
          LET mat == material[Top.state[1].shape]
              reflectance == Top.state[1].reflectance
              after == stack'[Len(stack)]
          IN /\ (mat.reflective > 0 /\ mat.transparency > 0) =>
                    after.color = Top.color + Top.surface_color
                                  + Mul(Top.reflected_color, reflectance)
                                  + Mul(Top.refracted_color, One - reflectance)
             /\ (mat.reflective = 0 \/ mat.transparency = 0) =>
                    after.color = Top.color + Top.surface_color
                                  + Top.reflected_color + Top.refracted_color]_vars

\* a hit on the material that is both reflective and transparent, whose colors
\* have been combined: the lighting of 0.10 and 0.04 of the weighted colors, where
\* the plain sum of 0.05 and 0.05 would have given 0.20
C19_Witness ==
    /\ stack # <<>>
    /\ Top.pc = "shade_hit"
    /\ Top.light > 1
    /\ material[Top.state[1].shape].reflective > 0
    /\ material[Top.state[1].shape].transparency > 0
    /\ Top.state[1].reflectance = 4
    /\ Top.color = 14

\* C20: Shape::lighting returns the ambient term alone, diffuse and specular
\* being zero, whenever shadowed is true or the light is behind the surface
\* (light.dot(normal) < 0); and the specular term is zero whenever
\* reflect.dot(eye) is not positive
C20_LightingAmbientOnly ==
    lighting_args # <<>> =>
        LET a == lighting_args[1]
            ambient == Mul(Mul(White, White), Ambient)
            diffuse == Mul(Mul(Mul(White, White), Diffuse), a.light_dot_normal)
        IN /\ (a.shadowed \/ a.light_dot_normal < 0) => lighting_result[1] = ambient
           /\ (~a.shadowed /\ a.light_dot_normal >= 0 /\ a.reflect_dot_eye <= 0) =>
                 lighting_result[1] = ambient + diffuse

\* tests::lightning, "shadowed": the light is in front, the eye in the
\* reflection, and the color is 0.1
C20_Witness ==
    /\ lighting_args = <<[shadowed |-> TRUE, light_dot_normal |-> One,
                          reflect_dot_eye |-> One]>>
    /\ lighting_result = <<10>>

\* C21: a normal query on a SmoothTriangle with u or v None panics, with both
\* Some it returns n2 * u + n3 * v + n1 * (1 - u - v); every other geometry
\* returns its normal whatever u and v are.
C21_SmoothTriangleNormalNeedsUV ==
    \A i \in 1 .. Len(query) :
        query[i].fn = "normal" =>
            LET q == query[i]
                smooth == q.geometry.kind = "SmoothTriangle"
            IN  /\ (smooth /\ (q.u = <<>> \/ q.v = <<>>)) => answer[i].panicked
                /\ (smooth /\ q.u # <<>> /\ q.v # <<>>) =>
                      /\ ~answer[i].panicked
                      /\ \A k \in 1 .. 3 :
                            answer[i].value[1][k] =
                                Mul(q.geometry.n2[k], q.u[1]) + Mul(q.geometry.n3[k], q.v[1])
                                + Mul(q.geometry.n1[k], One - q.u[1] - q.v[1])
                /\ ~smooth =>
                      /\ ~answer[i].panicked
                      /\ \A u \in UVOptions, v \in UVOptions :
                            answer[i] = Geometry_normal(q.geometry, q.point, u, v)

\* a smooth triangle was asked for its normal without u, and the call panicked
C21_Witness ==
    /\ query # <<>>
    /\ query[1].fn = "normal"
    /\ query[1].geometry.kind = "SmoothTriangle"
    /\ query[1].u = <<>>
    /\ query[1].v # <<>>
    /\ answer[1].panicked

C23_LateralRecordsWithinBounds ==
    \A i \in 1 .. Len(query) :
        query[i].fn = "intersect" =>
            LET g == query[i].geometry
                ray == query[i].ray
            IN  \A j \in 1 .. Len(answer[i]) :
                    LET y == ray.origin[2] + Mul(answer[i][j].t, ray.direction[2])
                    IN  /\ answer[i][j].part = "lateral" => (g.min < y /\ y < g.max)
                        /\ answer[i][j].part = "cap" => g.closed

C24_WitnessNoLight ==
    /\ lights = 0
    /\ stack = <<>>
    /\ pixel = <<Black>>
    /\ material[0].reflective > 0
    /\ \E i \in 1 .. Len(intersections) : intersections[i].t >= 0 /\ intersections[i].shape = 0

\* the ledger holds the records of one ray with the elements of the world,
\* sorted, and nothing else
LedgerOfOneRay(s) == \E hits \in RayHits : s = SortByT(World_intersect(<<>>, hits))

\* C25: when color_at hands the ledger to prepare_state, the ledger holds the
\* sorted intersections of the ray of this color_at with the elements of the
\* world and no record that a shadow test, an earlier light or another ray had
\* left; and the State of an activation stays as prepare_state built it while
\* shade_hit reuses the ledger
C25_LedgerIsOfCurrentRay ==
    [][/\ (stack # <<>> /\ Top.pc = "color_at") =>
              /\ IsSortedByT(intersections')
              /\ LedgerOfOneRay(intersections')
              /\ Len(stack') = Len(stack) =>
                    \E cos \in CosValues :
                        TopAfter.state[1] =
                            prepare_state(material, Intersections_hit(intersections')[1],
                                          cos, intersections')
       /\ \A i \in 1 .. Len(stack) :
              (i <= Len(stack') /\ stack[i].state # <<>>) => stack'[i].state = stack[i].state]_vars

\* the color_at of a reflected or refracted ray has built its State on a ledger
\* without any record of the shape its caller had hit, after the caller's
\* shadow test had used the ledger
C25_Witness ==
    /\ Len(stack) = 2
    /\ Top.pc = "shade_hit"
    /\ Top.light = 1
    /\ Top.state[1].shape = 1
    /\ stack[1].state[1].shape = 0
    /\ intersections # <<>>
    /\ \A i \in 1 .. Len(intersections) : intersections[i].shape = 1

\* C26: after every record prepare_state has processed, the list shapes has no
\* duplicates, holds exactly the shapes met an odd number of times so far, in
\* the order of the records they were last entered at, and has the elements of
\* the hash set; a shape met again leaves the list from wherever it is
C26_ShapesListTracksEntered ==
    (op = "prepare_state" /\ walk >= 1) =>
        LET k == walk - 1
        IN  /\ \A i, j \in 1 .. Len(shapes) : i # j => shapes[i] # shapes[j]
            /\ {shapes[i] : i \in 1 .. Len(shapes)} = EnteredAfter(k)
            /\ set = EnteredAfter(k)
            /\ \A i, j \in 1 .. Len(shapes) :
                  i < j => LastRecordOf(shapes[i], k) < LastRecordOf(shapes[j], k)

\* on the ledger a, b, c, b, ... the fourth record has taken b from between a
\* and c
C26_Witness ==
    /\ op = "prepare_state"
    /\ intersections = RefractionExampleLedger
    /\ walk = 5
    /\ shapes = <<0, 2>>
    /\ set = {0, 2}

\* the records of the ledger that equal the hit by t and by shape
EqualToSelf ==
    {i \in 1 .. Len(intersections) :
        intersections[i].t = self[1].t /\ intersections[i].shape = self[1].shape}

\* the last of them
LastEqualToSelf == CHOOSE i \in EqualToSelf : \A j \in EqualToSelf : j <= i

\* C27: prepare_state reads n1 and n2 around one and the same record: when no
\* record of the ledger equals the hit by t and shape, as for an empty ledger,
\* n1 = n2 = 1.0; when several do, n1 is the index before and n2 the index
\* after the last of them
C27_N1N2AroundTheLastEqualRecord ==
    (op = "prepare_state" /\ PrepareDone) =>
        IF EqualToSelf = {}
        THEN n1 = VACUUM /\ n2 = VACUUM
        ELSE /\ n1 = IndexAfter(LastEqualToSelf - 1)
             /\ n2 = IndexAfter(LastEqualToSelf)

\* a ledger with two records equal to the hit, the shape entered at the first
\* and left at the second: n1 is its index and n2 is 1.0
C27_Witness ==
    /\ op = "prepare_state"
    /\ PrepareDone
    /\ Cardinality(EqualToSelf) = 2
    /\ n1 = material[self[1].shape].refractive_index
    /\ n2 = VACUUM

\* the walk over a ledger that holds no record equal to the hit is over
C27_WitnessNoEqualRecord ==
    /\ op = "prepare_state"
    /\ PrepareDone
    /\ intersections # <<>>
    /\ EqualToSelf = {}
    /\ n1 = VACUUM
    /\ n2 = VACUUM

RECURSIVE IsSubsequence(_, _)
\* the records of a are records of b, in the order of b, each taken once
IsSubsequence(a, b) ==
    IF a = <<>> THEN TRUE
    ELSE IF b = <<>> THEN FALSE
    ELSE IF a[1] = b[1] THEN IsSubsequence(Tail(a), Tail(b))
    ELSE IsSubsequence(a, Tail(b))

\* the records of s whose shape is not in the group
Outside(s) == SelectSeq(s, LAMBDA r : ~Group_includes(group, r.shape))

\* C28: filter_by_group leaves a subsequence of the ledger it was given, in
\* the order of that ledger, and keeps every record whose shape is not inside
\* the group, without toggling in_left or in_right for it
C28_FilterKeepsOutsideRecords ==
    [][/\ (cursor >= 1 /\ cursor <= Len(intersections)) =>
              /\ IsSubsequence(result', SubSeq(intersections, 1, cursor))
              /\ result' = result \/ result' = Append(result, intersections[cursor])
              /\ ~Group_includes(group, intersections[cursor].shape) =>
                    /\ result' = Append(result, intersections[cursor])
                    /\ in_left' = in_left
                    /\ in_right' = in_right
       /\ (cursor >= 1 /\ cursor = Len(intersections) + 1) =>
              /\ IsSubsequence(intersections', intersections)
              /\ Outside(intersections') = Outside(intersections)]_vars

\* an Intersection group has dropped the record of its left child, has toggled
\* in_left, and has then kept the record of the shape outside the group
C28_Witness ==
    /\ cursor = 3
    /\ group.kind = "Intersection"
    /\ Group_includes(group, intersections[1].shape)
    /\ ~Group_includes(group, intersections[2].shape)
    /\ result = <<intersections[2]>>
    /\ in_left
    /\ ~in_right

\* C29: a.union(b) is the smallest box that encloses a and b: its corners are
\* the least and the greatest coordinates of both, it is b.union(a), and it is
\* the other box when a or b is the empty box
C29_UnionIsSmallestEnclosing ==
    \A i \in 1 .. Len(query) :
        query[i].fn = "union" =>
            LET a == query[i].self_
                b == query[i].other
            IN  /\ answer[i] = BoundingBox_union(b, a)
                /\ b = BoundingBox_empty => answer[i] = a
                /\ a = BoundingBox_empty => answer[i] = b
                /\ (a # BoundingBox_empty /\ b # BoundingBox_empty) =>
                      \A k \in 1 .. 3 :
                          /\ answer[i].min[k] = FMin(a.min[k], b.min[k])
                          /\ answer[i].max[k] = FMax(a.max[k], b.max[k])

\* C30: every record Geometry::intersect produces for a SmoothTriangle carries
\* Some u and Some v, so the normal prepare_state asks for on a record of the
\* ledger never panics; the records of the geometries that are not triangles
\* carry u = v = None
C30_SmoothTriangleRecordsCarryUV ==
    \A i \in 1 .. Len(query) :
        query[i].fn = "prepare_state" =>
            LET kind == query[i].geometry.kind
            IN  \A j \in 1 .. Len(answer[i].intersections) :
                    LET rec == answer[i].intersections[j]
                    IN  /\ kind = "SmoothTriangle" => (rec.u # <<>> /\ rec.v # <<>>)
                        /\ kind \notin {"Triangle", "SmoothTriangle"} =>
                              (rec.u = <<>> /\ rec.v = <<>>)
                        /\ ~answer[i].normal[j].panicked

\* the ray of tests::ray_smooth_triangle_u_v has met the smooth triangle at
\* u = 0.45, v = 0.25, and the normal was interpolated
C30_Witness ==
    /\ query # <<>>
    /\ query[1].fn = "prepare_state"
    /\ query[1].geometry.kind = "SmoothTriangle"
    /\ Len(answer[1].intersections) = 1
    /\ answer[1].intersections[1].u = <<45>>
    /\ answer[1].intersections[1].v = <<25>>
    /\ answer[1].intersections[1].t = 2 * One
    /\ ~answer[1].normal[1].panicked

\* C18: the id generator is one for the process: two constructions, on one
\* thread or on two, get different ids, so shapes built on different threads
\* never compare equal.
C18_IdsDifferAcrossThreads ==
    \A i, j \in 1 .. Len(built) :
        /\ (built[i].thread = built[j].thread /\ built[i].serial # built[j].serial)
              => built[i].id # built[j].id
        /\ built[i].thread # built[j].thread => ~Shape_eq(built[i], built[j])

====
